---- MODULE Spec2Model ----
(***************************************************************************)
(* A model of the translation engine of llm-subtrans: the SubtitleEditor   *)
(* scope and its mutations, the project's re-emission of translator        *)
(* events, the retry loop of the custom HTTP client and the streaming loop *)
(* of the OpenAI reasoning client.                                         *)
(***************************************************************************)
EXTENDS Integers, Sequences, FiniteSets, TLC

\* ------------------------------------------------------------------------
\* Bounds of the model
\* ------------------------------------------------------------------------
NumThreads == 3
NumEditors == 3
MaxDepth == 2
MaxHeld == 3
MaxDuplicateScenes == 2
MaxDuplicateBatches == 2
MaxAddedScenes == 2
MaxBatches == 2
MaxLines == 2
MaxScenes == 2
MaxLoadedLines == 2
MaxRunScenes == 2        \* scenes of the Subtitles a translation run walks
MaxSceneBatches == 2     \* batches of one of these scenes
MaxRuns == 2             \* translation runs made with one translator
MaxRetries == 3          \* largest max_retries setting of the custom client
MaxParts == 2            \* text parts in the output of one response
MaxCommands == 1         \* commands in the GUI's command queue
MaxLate == 3             \* seconds an age is counted beyond the autosave delay
MaxInputScenes == 3      \* scenes of the Subtitles a single editor call is made on
MaxInputBatches == 2     \* batches of one of these scenes
MaxMergeArgs == 3        \* scene numbers in one call of MergeScenes
MaxSettingsKeys == 2     \* fields in the settings of one call of UpdateProjectSettings
MaxMessages == 2         \* items in the content of one request
MaxBatchSize == 3        \* largest min_batch_size and max_batch_size of a SubtitleBuilder
MaxBuilderLines == 5     \* lines added to one SubtitleBuilder
MaxBuilderScenes == 2    \* scenes added to one SubtitleBuilder
MaxCliBatches == 2       \* batches translated in one run of the command line script
MaxCommandBatches == 2   \* batches of the scene a TranslateSceneCommand translates
MaxSubtitlesObjects == 2 \* Subtitles objects one project refers to, one after the other

VARIABLES
    \* Subtitles.lock (a reentrant lock) and the SubtitleEditor scopes
    lockOwner,       \* thread holding Subtitles.lock, or NoThread
    lockCount,       \* recursion count of Subtitles.lock
    lock_acquired,   \* SubtitleEditor._lock_acquired of every editor instance
    scopes,          \* per thread: the editors whose `with` scope is open, innermost last
    waiting,         \* per thread: the editor whose __enter__ is blocked in lock.acquire()
    raised,          \* per thread: an exception is propagating out of the scope bodies
    lastExit,        \* per thread: how its last scope was left
    \* the Subtitles a SubtitleEditor mutates
    scenes,          \* Subtitles.scenes
    originals,       \* Subtitles.originals, the flattened original lines
    lastOp,          \* the last editor operation called and whether it returned
    \* a translation run of SubtitleProject with a SubtitleTranslator
    batchCounts,     \* per scene of the project's Subtitles: how many batches it has
    use_project_file,\* SubtitleProject.use_project_file
    needs_writing,   \* SubtitleProject.needs_writing
    subscribed,      \* the translator events the project's handlers are connected to
    run,             \* the run in progress: which project method, and how far it is
    trScene,         \* position of the scene the translator is walking
    trBatch,         \* number of the next batch of that scene
    runs,            \* runs started so far
    evLog,           \* the events of the current run, in the order subscribers saw them
    \* one CustomClient._make_request call
    ccSettings,      \* max_retries, backoff_time and stream_responses of the client
    ccServer,        \* how the server answers: "always5xx", "always4xx" or "any"
    ccState,         \* where the call is, or how it ended
    ccRetry,         \* index of the current attempt, from 0
    ccStatuses,      \* status codes of the answers received, one per send attempt
    ccSlept,         \* seconds slept in backoff so far
    ccCalls,         \* calls of httpx.Client.post and httpx.Client.stream made so far
    \* one OpenAIReasoningClient._send_messages call and a thread that aborts it
    request_is_streaming, \* TranslationRequest.is_streaming
    server,          \* what the server sends: the response and how the stream ends
    pc,              \* where the sending thread is
    evIdx,           \* events taken from the stream so far
    outcome,         \* how _get_client_response is ending
    pushed,          \* the deltas given to request.ProcessStreamingDelta, with their event index
    is_streaming,    \* OpenAIReasoningClient._is_streaming
    aborted,         \* TranslationClient.aborted
    abPc,            \* where the aborting thread is
    transportClosed, \* the client's transport has been closed by _abort
    abortWhen,       \* pc of the sending thread when aborted was set
    fetchedAtAbort,  \* evIdx when aborted was set
    hookWhen,        \* pc of the sending thread when _abort ran
    result,          \* what _send_messages returned or raised
    \* saving a SubtitleProject
    project,         \* the SubtitleProject, its Subtitles and the files the last call wrote
    translator,      \* preview and aborted of the SubtitleTranslator given to TranslateSubtitles
    pjCall,          \* the project method called last and how far it is
    \* the GUI's command queue and autosave timer
    command_queue,   \* the commands queued or running, oldest first
    completed,       \* commandExecuted signals the GUI thread has not handled yet
    datamodel,       \* autosave_enabled of the data model and needs_writing of its project
    _autosave_timer, \* seconds until GuiInterface._autosave_timer fires, or Inactive
    sinceChange,     \* seconds since needs_writing was last set, or NoChange
    lastSaveAge,     \* sinceChange when the last autosave was performed, or NoSave
    \* threads that change the Subtitles of a project
    subtitles_lock,  \* Subtitles.lock as the project's threads use it
    project_lock,    \* SubtitleProject.lock
    where,           \* per thread, the scope or project method it is in
    UpdateSettingsLocks, \* whether Subtitles.UpdateSettings takes Subtitles.lock itself
    \* one call of SubtitleEditor.MergeScenes or SplitScene
    given,           \* Subtitles.scenes before a call of the editor
    called,          \* the editor method called and its arguments
    left,            \* the error the call raised, if any, and Subtitles.scenes after it
    \* the process-wide SubtitleFormatRegistry
    _handlers,       \* SubtitleFormatRegistry._handlers, extension to handler class
    _priorities,     \* SubtitleFormatRegistry._priorities
    _discovered,     \* SubtitleFormatRegistry._discovered
    since,           \* what was registered and called since the last clear() and the last disable_autodiscovery()
    regBefore,       \* the registry before the last call
    regCall,         \* the last call made on the registry and what it returned
    \* the project settings of a SubtitleProject
    project_subtitles,   \* SubtitleProject.subtitles, whether there are any and their settings
    settingsCall,  \* the last call of UpdateProjectSettings, its argument and the settings before it
    \* the message conversion of the OpenAI reasoning client
    conversion,  \* the last call of _convert_to_input_params, its content and what it returned or raised
    \* a SubtitleBuilder and its caller
    builder,   \* the fields of a SubtitleBuilder
    lineClock,   \* end of the last line the caller constructed
    built,  \* whether Build was called and the scenes of the Subtitles it returned
    \* a command line translation process
    cli,  \* one run of the gpt-subtrans script, where it is, what happened and its exit status
    \* a TranslateSceneCommand and the thread that aborts it
    command,  \* a TranslateSceneCommand, its translator and how far execute is
    \* threads that nest the project lock and Subtitles.lock
    project_subtitles_id,   \* which Subtitles object SubtitleProject.subtitles refers to
    subtitles_locks,   \* Subtitles.lock of every Subtitles object
    held_project_lock,   \* SubtitleProject.lock
    doing,   \* per thread, the project operation it is in and how far
    SaveTakesLock   \* whether Subtitles.SaveOriginal and SaveTranslation take Subtitles.lock

lockVars == <<lockOwner, lockCount, lock_acquired, scopes, waiting, raised, lastExit>>
editorVars == <<scenes, originals, lastOp>>

eventVars == <<batchCounts, use_project_file, needs_writing, subscribed, run, trScene, trBatch,
               runs, evLog>>

customVars == <<ccSettings, ccServer, ccState, ccRetry, ccStatuses, ccSlept, ccCalls>>

streamVars == <<request_is_streaming, server, pc, evIdx, outcome, pushed, is_streaming, aborted,
                abPc, transportClosed, abortWhen, fetchedAtAbort, hookWhen, result>>

saveVars == <<project, translator, pjCall>>

autosaveVars == <<command_queue, completed, datamodel, _autosave_timer, sinceChange, lastSaveAge>>

accessVars == <<subtitles_lock, project_lock, where, UpdateSettingsLocks>>

callsVars == <<given, called, left>>

registryVars == <<_handlers, _priorities, _discovered, since, regBefore, regCall>>

settingsVars == <<project_subtitles, settingsCall>>

convertVars == <<conversion>>

builderVars == <<builder, lineClock, built>>

cliVars == <<cli>>

commandVars == <<command>>

orderVars == <<project_subtitles_id, subtitles_locks, held_project_lock, doing, SaveTakesLock>>

vars == <<lockVars, editorVars, eventVars, customVars, streamVars, saveVars, autosaveVars, accessVars, callsVars, registryVars, settingsVars, convertVars, builderVars, cliVars, commandVars, orderVars>>

\* what the steps of one component leave alone: the state of the others
notLockVars == <<editorVars, eventVars, customVars, streamVars, saveVars, autosaveVars, accessVars, callsVars, registryVars, settingsVars, convertVars, builderVars, cliVars, commandVars, orderVars>>
notEditorVars == <<lockVars, eventVars, customVars, streamVars, saveVars, autosaveVars, accessVars, callsVars, registryVars, settingsVars, convertVars, builderVars, cliVars, commandVars, orderVars>>
notEventVars == <<lockVars, editorVars, customVars, streamVars, saveVars, autosaveVars, accessVars, callsVars, registryVars, settingsVars, convertVars, builderVars, cliVars, commandVars, orderVars>>
notCustomVars == <<lockVars, editorVars, eventVars, streamVars, saveVars, autosaveVars, accessVars, callsVars, registryVars, settingsVars, convertVars, builderVars, cliVars, commandVars, orderVars>>
notStreamVars == <<lockVars, editorVars, eventVars, customVars, saveVars, autosaveVars, accessVars, callsVars, registryVars, settingsVars, convertVars, builderVars, cliVars, commandVars, orderVars>>
notSaveVars == <<lockVars, editorVars, eventVars, customVars, streamVars, autosaveVars, accessVars, callsVars, registryVars, settingsVars, convertVars, builderVars, cliVars, commandVars, orderVars>>
notAutosaveVars == <<lockVars, editorVars, eventVars, customVars, streamVars, saveVars, accessVars, callsVars, registryVars, settingsVars, convertVars, builderVars, cliVars, commandVars, orderVars>>
notAccessVars == <<lockVars, editorVars, eventVars, customVars, streamVars, saveVars, autosaveVars, callsVars, registryVars, settingsVars, convertVars, builderVars, cliVars, commandVars, orderVars>>
notCallsVars == <<lockVars, editorVars, eventVars, customVars, streamVars, saveVars, autosaveVars, accessVars, registryVars, settingsVars, convertVars, builderVars, cliVars, commandVars, orderVars>>
notRegistryVars == <<lockVars, editorVars, eventVars, customVars, streamVars, saveVars, autosaveVars, accessVars, callsVars, settingsVars, convertVars, builderVars, cliVars, commandVars, orderVars>>
notSettingsVars == <<lockVars, editorVars, eventVars, customVars, streamVars, saveVars, autosaveVars, accessVars, callsVars, registryVars, convertVars, builderVars, cliVars, commandVars, orderVars>>
notConvertVars == <<lockVars, editorVars, eventVars, customVars, streamVars, saveVars, autosaveVars, accessVars, callsVars, registryVars, settingsVars, builderVars, cliVars, commandVars, orderVars>>
notBuilderVars == <<lockVars, editorVars, eventVars, customVars, streamVars, saveVars, autosaveVars, accessVars, callsVars, registryVars, settingsVars, convertVars, cliVars, commandVars, orderVars>>
notCliVars == <<lockVars, editorVars, eventVars, customVars, streamVars, saveVars, autosaveVars, accessVars, callsVars, registryVars, settingsVars, convertVars, builderVars, commandVars, orderVars>>
notCommandVars == <<lockVars, editorVars, eventVars, customVars, streamVars, saveVars, autosaveVars, accessVars, callsVars, registryVars, settingsVars, convertVars, builderVars, cliVars, orderVars>>
notOrderVars == <<lockVars, editorVars, eventVars, customVars, streamVars, saveVars, autosaveVars, accessVars, callsVars, registryVars, settingsVars, convertVars, builderVars, cliVars, commandVars>>

\* ------------------------------------------------------------------------
\* Subtitles.lock and SubtitleEditor.__enter__ / __exit__
\* ------------------------------------------------------------------------
Threads == 1..NumThreads
Editors == 1..NumEditors
NoThread == 0
NoEditor == 0

\* lock.acquire() of a reentrant lock can return for thread t
RLockCanAcquire(t) == lockOwner = NoThread \/ lockOwner = t

\* lock.acquire() by thread t
RLockAcquire(t) ==
    /\ RLockCanAcquire(t)
    /\ lockOwner' = t
    /\ lockCount' = lockCount + 1

\* lock.release() by thread t, which holds the lock
RLockRelease(t) ==
    /\ lockOwner = t
    /\ lockCount' = lockCount - 1
    /\ lockOwner' = IF lockCount = 1 THEN NoThread ELSE t

\* number of acquisitions of Subtitles.lock thread t holds
HeldBy(t) == IF lockOwner = t THEN lockCount ELSE 0

\* an editor instance that is in no scope: what SubtitleEditor(subtitles) constructs
FreshEditor(e) ==
    /\ ~lock_acquired[e]
    /\ \A t \in Threads : waiting[t] # e
    /\ \A t \in Threads : \A i \in 1..Len(scopes[t]) : scopes[t][i] # e

\* SubtitleEditor.__enter__ of editor e on thread t
SubtitleEditor__enter__(t, e) ==
    /\ RLockAcquire(t)
    /\ lock_acquired' = [lock_acquired EXCEPT ![e] = TRUE]

\* a plausible slip: the lock is only released when the scope ends without an exception
SubtitleEditor__exit__OnlyOnSuccess(t, e, exc) ==
    IF lock_acquired[e] /\ ~exc
    THEN /\ RLockRelease(t)
         /\ lock_acquired' = [lock_acquired EXCEPT ![e] = FALSE]
    ELSE UNCHANGED <<lockOwner, lockCount, lock_acquired>>

\* SubtitleEditor.__exit__ of editor e on thread t; exc: an exception is passed in
SubtitleEditor__exit__(t, e, exc) ==
    IF lock_acquired[e]
    THEN /\ RLockRelease(t)
         /\ lock_acquired' = [lock_acquired EXCEPT ![e] = FALSE]
    ELSE UNCHANGED <<lockOwner, lockCount, lock_acquired>>

LockInit ==
    /\ lockOwner = NoThread
    /\ lockCount = 0
    /\ lock_acquired = [e \in Editors |-> FALSE]
    /\ scopes = [t \in Threads |-> <<>>]
    /\ waiting = [t \in Threads |-> NoEditor]
    /\ raised = [t \in Threads |-> FALSE]
    /\ lastExit = [t \in Threads |-> "none"]

\* `with SubtitleEditor(subtitles) as editor:` is reached: __enter__ is called
BeginEnter(t, e) ==
    /\ waiting[t] = NoEditor
    /\ ~raised[t]
    /\ Len(scopes[t]) < MaxDepth
    /\ FreshEditor(e)
    /\ waiting' = [waiting EXCEPT ![t] = e]
    /\ UNCHANGED <<lockOwner, lockCount, lock_acquired, scopes, raised, lastExit, notLockVars>>

\* __enter__ returns: the lock is acquired and the scope body starts
EnterScope(t) ==
    /\ waiting[t] # NoEditor
    /\ SubtitleEditor__enter__(t, waiting[t])
    /\ scopes' = [scopes EXCEPT ![t] = Append(@, waiting[t])]
    /\ waiting' = [waiting EXCEPT ![t] = NoEditor]
    /\ UNCHANGED <<raised, lastExit, notLockVars>>

\* an editor operation or other statement of the scope body raises
RaiseInScope(t) ==
    /\ scopes[t] # <<>>
    /\ waiting[t] = NoEditor
    /\ ~raised[t]
    /\ raised' = [raised EXCEPT ![t] = TRUE]
    /\ UNCHANGED <<lockOwner, lockCount, lock_acquired, scopes, waiting, lastExit, notLockVars>>

\* the innermost scope of thread t ends, normally or by the propagating exception;
\* __exit__ returns None, so the exception keeps propagating unless the code
\* between the scopes catches it
ExitScope(t, caught) ==
    /\ scopes[t] # <<>>
    /\ waiting[t] = NoEditor
    /\ SubtitleEditor__exit__(t, scopes[t][Len(scopes[t])], raised[t])
    /\ scopes' = [scopes EXCEPT ![t] = SubSeq(@, 1, Len(@) - 1)]
    /\ lastExit' = [lastExit EXCEPT ![t] = IF raised[t] THEN "exception" ELSE "normal"]
    /\ raised' = [raised EXCEPT ![t] = raised[t] /\ Len(scopes[t]) > 1 /\ ~caught]
    /\ UNCHANGED <<waiting, notLockVars>>

LockNext ==
    \/ \E t \in Threads, e \in Editors : BeginEnter(t, e)
    \/ \E t \in Threads : EnterScope(t)
    \/ \E t \in Threads : RaiseInScope(t)
    \/ \E t \in Threads, caught \in BOOLEAN : ExitScope(t, caught)

\* `with editor:` is reached inside the scope of the same instance on the same
\* thread (`with SubtitleEditor(subtitles) as editor: ... with editor:`)
BeginEnterAgain(t, e) ==
    /\ waiting[t] = NoEditor
    /\ ~raised[t]
    /\ Len(scopes[t]) < MaxDepth
    /\ \E i \in 1..Len(scopes[t]) : scopes[t][i] = e
    /\ lockCount < MaxHeld
    /\ waiting' = [waiting EXCEPT ![t] = e]
    /\ UNCHANGED <<lockOwner, lockCount, lock_acquired, scopes, raised, lastExit, notLockVars>>

\* nested scopes of fresh instances and of the instance whose scope is open
ReenterNext ==
    \/ \E t \in Threads, e \in Editors : BeginEnter(t, e)
    \/ \E t \in Threads, e \in Editors : BeginEnterAgain(t, e)
    \/ \E t \in Threads : EnterScope(t)
    \/ \E t \in Threads : RaiseInScope(t)
    \/ \E t \in Threads, caught \in BOOLEAN : ExitScope(t, caught)


\* ------------------------------------------------------------------------
\* Subtitles: scenes, batches and lines
\* ------------------------------------------------------------------------
NoStart == 0 - 1      \* line.start is None

\* every line of the model lasts one second
LineEnd(line) == line.start + 1

Line(n, s) == [number |-> n, start |-> s]

\* the filter of Sanitise: `line.number and line.start is not None`
ValidLine(line) == line.number # 0 /\ line.start # NoStart

LineNumbersOf(lines) == {lines[i].number : i \in 1..Len(lines)}

RECURSIVE Flatten(_)
Flatten(seqs) == IF seqs = <<>> THEN <<>> ELSE Head(seqs) \o Flatten(Tail(seqs))

\* the originals projection: the batches' originals across the scenes, in order
FlattenOriginals(ss) ==
    Flatten([i \in 1..Len(ss) |->
        Flatten([j \in 1..Len(ss[i].batches) |-> ss[i].batches[j].originals])])

\* Subtitles.originals after a mutation that leaves scenes ss
ProjectOriginals(ss) == IF ss = <<>> THEN originals ELSE FlattenOriginals(ss)

\* positions of the scenes numbered n, and of the batches numbered b in a scene
ScenePositions(ss, n) == {i \in 1..Len(ss) : ss[i].number = n}
BatchPositions(scene, b) == {j \in 1..Len(scene.batches) : scene.batches[j].number = b}

Min(S) == CHOOSE x \in S : \A y \in S : x <= y
Max(S) == CHOOSE x \in S : \A y \in S : x >= y

RECURSIVE InsertSorted(_, _)
InsertSorted(x, s) ==
    IF s = <<>> THEN <<x>>
    ELSE IF x <= Head(s) THEN <<x>> \o s
    ELSE <<Head(s)>> \o InsertSorted(x, Tail(s))

RECURSIVE Sorted(_)
Sorted(s) == IF s = <<>> THEN <<>> ELSE InsertSorted(Head(s), Sorted(Tail(s)))

\* ------------------------------------------------------------------------
\* SubtitleEditor operations, as functions of Subtitles.scenes
\* ------------------------------------------------------------------------

\* a plausible slip: the scenes are renumbered but their batches are not
RenumberScenesOnly(ss) ==
    [i \in 1..Len(ss) |-> [ss[i] EXCEPT !.number = i]]

\* SubtitleEditor.RenumberScenes
RenumberScenes(ss) ==
    [i \in 1..Len(ss) |->
        [ss[i] EXCEPT !.number = i,
                      !.batches = [j \in 1..Len(ss[i].batches) |->
                                      [ss[i].batches[j] EXCEPT !.scene = i, !.number = j]]]]

\* the per-batch part of Sanitise: invalid lines go, then translations without an original
SanitiseBatch(batch) ==
    LET origs == SelectSeq(batch.originals, ValidLine)
        trans == IF batch.translated # <<>>
                 THEN SelectSeq(batch.translated, ValidLine)
                 ELSE batch.translated
        matched == SelectSeq(trans, LAMBDA line : line.number \in LineNumbersOf(origs))
    IN [batch EXCEPT !.originals = origs, !.translated = matched]

\* the per-scene part of Sanitise: batches without originals are dropped first,
\* then the lines of the batches that are left are filtered
SanitiseScene(scene) ==
    LET kept == SelectSeq(scene.batches, LAMBDA batch : batch.originals # <<>>)
    IN [scene EXCEPT !.batches = [j \in 1..Len(kept) |-> SanitiseBatch(kept[j])]]

\* a plausible slip: translations without a matching original are kept
SanitiseKeepsUnmatched(ss) ==
    LET cleaned == [i \in 1..Len(ss) |->
            [ss[i] EXCEPT !.batches =
                [j \in 1..Len(ss[i].batches) |->
                    [ss[i].batches[j] EXCEPT
                        !.originals = SelectSeq(@, ValidLine),
                        !.translated = SelectSeq(@, ValidLine)]]]]
    IN RenumberScenes(SelectSeq(cleaned, LAMBDA scene : scene.batches # <<>>))

\* SubtitleEditor.Sanitise
Sanitise(ss) ==
    LET cleaned == [i \in 1..Len(ss) |-> SanitiseScene(ss[i])]
    IN RenumberScenes(SelectSeq(cleaned, LAMBDA scene : scene.batches # <<>>))


\* SubtitleEditor.AddScene: the scene is appended as it is
AddScene(ss, scene) == Append(ss, scene)

\* Subtitles.GetBatchesContainingLines: <<scene position, batch position>> of the
\* batches holding an original line with one of the numbers
BatchesContainingLines(ss, nums) ==
    UNION {{<<i, j>> : j \in {k \in 1..Len(ss[i].batches) :
                                LineNumbersOf(ss[i].batches[k].originals) \cap nums # {}}} :
           i \in 1..Len(ss)}

\* SubtitleBatch.DeleteLines
BatchDeleteLines(batch, nums) ==
    [batch EXCEPT !.originals = SelectSeq(@, LAMBDA line : line.number \notin nums),
                  !.translated = SelectSeq(@, LAMBDA line : line.number \notin nums)]

\* SubtitleEditor.DeleteLines raises: nothing was deleted from any batch
DeleteLinesRaises(ss, nums) == BatchesContainingLines(ss, nums) = {}

\* SubtitleEditor.DeleteLines
DeleteLines(ss, nums) ==
    [i \in 1..Len(ss) |->
        [ss[i] EXCEPT !.batches = [j \in 1..Len(ss[i].batches) |->
            IF <<i, j>> \in BatchesContainingLines(ss, nums)
            THEN BatchDeleteLines(ss[i].batches[j], nums)
            ELSE ss[i].batches[j]]]]

\* the check of MergeScenes on its sorted argument
IsSequential(sorted) == \A k \in 1..Len(sorted) : sorted[k] = sorted[1] + k - 1

\* the scenes MergeScenes finds: positions of the scenes numbered in the list
FoundScenes(ss, nums) == {i \in 1..Len(ss) : \E k \in 1..Len(nums) : ss[i].number = nums[k]}

\* a plausible slip: the list is checked as given, without sorting it first
MergeScenesRaisesUnsorted(ss, nums) ==
    \/ nums = <<>>
    \/ ~IsSequential(nums)
    \/ Cardinality(FoundScenes(ss, nums)) # Len(nums)

\* SubtitleEditor.MergeScenes raises
MergeScenesRaises(ss, nums) ==
    \/ nums = <<>>
    \/ ~IsSequential(Sorted(nums))
    \/ Cardinality(FoundScenes(ss, nums)) # Len(nums)

\* SubtitleScene.MergeScenes: the batches of the other scenes are added to the first
SceneMergeScenes(ss, found) ==
    LET first == Min(found)
        others == SelectSeq([i \in 1..Len(ss) |-> i], LAMBDA i : i \in found /\ i # first)
    IN [ss[first] EXCEPT !.batches =
            @ \o Flatten([k \in 1..Len(others) |-> ss[others[k]].batches])]

\* SubtitleEditor.MergeScenes
MergeScenes(ss, nums) ==
    LET found == FoundScenes(ss, nums)
        start_index == Min(found)
        end_index == Max(found)
    IN RenumberScenes(SubSeq(ss, 1, start_index - 1)
                      \o <<SceneMergeScenes(ss, found)>>
                      \o SubSeq(ss, end_index + 1, Len(ss)))

\* SubtitleScene.MergeBatches: the batches numbered in nums become one batch at the
\* place of the first of them, and the batches of the scene are renumbered
SceneMergeBatches(scene, nums) ==
    LET hit == {j \in 1..Len(scene.batches) : scene.batches[j].number \in nums}
        first == Min(hit)
        order == SelectSeq([j \in 1..Len(scene.batches) |-> j], LAMBDA j : j \in hit)
        merged == [scene.batches[first] EXCEPT
                      !.originals = Flatten([k \in 1..Len(order) |-> scene.batches[order[k]].originals]),
                      !.translated = Flatten([k \in 1..Len(order) |-> scene.batches[order[k]].translated])]
        kept == SelectSeq([j \in 1..Len(scene.batches) |-> j], LAMBDA j : j = first \/ j \notin hit)
    IN [scene EXCEPT !.batches = [k \in 1..Len(kept) |->
            [(IF kept[k] = first THEN merged ELSE scene.batches[kept[k]]) EXCEPT !.number = k]]]

\* SubtitleEditor.MergeBatches raises
MergeBatchesRaises(ss, scene_number, nums) ==
    \/ nums = {}
    \/ ScenePositions(ss, scene_number) = {}
    \/ LET scene == ss[Min(ScenePositions(ss, scene_number))]
       IN \A j \in 1..Len(scene.batches) : scene.batches[j].number \notin nums

\* SubtitleEditor.MergeBatches
MergeBatches(ss, scene_number, nums) ==
    LET i == Min(ScenePositions(ss, scene_number))
    IN [ss EXCEPT ![i] = SceneMergeBatches(ss[i], nums)]

\* SubtitleBatch.MergeLines on one list of lines: the lines numbered in nums
\* become one line with the number and the start of the first
MergeLineList(lines, nums) ==
    LET hit == {k \in 1..Len(lines) : lines[k].number \in nums}
    IN IF Cardinality(hit) < 2 THEN lines
       ELSE SubSeq(lines, 1, Min(hit) - 1)
            \o <<lines[Min(hit)]>>
            \o SubSeq(lines, Max(hit) + 1, Len(lines))

\* SubtitleEditor.MergeLinesInBatch raises: no such batch, or fewer than two lines to merge
MergeLinesInBatchRaises(ss, scene_number, batch_number, nums) ==
    \/ ScenePositions(ss, scene_number) = {}
    \/ LET scene == ss[Min(ScenePositions(ss, scene_number))]
       IN \/ BatchPositions(scene, batch_number) = {}
          \/ LET batch == scene.batches[Min(BatchPositions(scene, batch_number))]
             IN Cardinality({k \in 1..Len(batch.originals) : batch.originals[k].number \in nums}) < 2

\* SubtitleEditor.MergeLinesInBatch
MergeLinesInBatch(ss, scene_number, batch_number, nums) ==
    LET i == Min(ScenePositions(ss, scene_number))
        j == Min(BatchPositions(ss[i], batch_number))
    IN [ss EXCEPT ![i].batches[j].originals = MergeLineList(@, nums),
                  ![i].batches[j].translated = MergeLineList(@, nums)]

\* SubtitleEditor.SplitScene raises: the scene or the batch does not exist
SplitSceneRaises(ss, scene_number, batch_number) ==
    \/ ScenePositions(ss, scene_number) = {}
    \/ BatchPositions(ss[Min(ScenePositions(ss, scene_number))], batch_number) = {}

\* a plausible slip: the batch the scene is split at stays in the old scene
SplitSceneAfterBatch(ss, scene_number, batch_number) ==
    LET i == Min(ScenePositions(ss, scene_number))
        scene == ss[i]
        batch_index == Min(BatchPositions(scene, batch_number))
        moved == SubSeq(scene.batches, batch_index + 1, Len(scene.batches))
        new_scene == [number |-> scene_number + 1,
                      batches |-> [j \in 1..Len(moved) |->
                                      [moved[j] EXCEPT !.scene = scene_number + 1, !.number = j]]]
        old_scene == [scene EXCEPT !.batches = SubSeq(scene.batches, 1, batch_index)]
    IN RenumberScenes(SubSeq(ss, 1, i - 1) \o <<old_scene, new_scene>> \o SubSeq(ss, i + 1, Len(ss)))

\* SubtitleEditor.SplitScene
SplitScene(ss, scene_number, batch_number) ==
    LET i == Min(ScenePositions(ss, scene_number))
        scene == ss[i]
        batch_index == Min(BatchPositions(scene, batch_number))
        moved == SubSeq(scene.batches, batch_index, Len(scene.batches))
        new_scene == [number |-> scene_number + 1,
                      batches |-> [j \in 1..Len(moved) |->
                                      [moved[j] EXCEPT !.scene = scene_number + 1, !.number = j]]]
        old_scene == [scene EXCEPT !.batches = SubSeq(scene.batches, 1, batch_index - 1)]
    IN RenumberScenes(SubSeq(ss, 1, i - 1) \o <<old_scene, new_scene>> \o SubSeq(ss, i + 1, Len(ss)))

\* a splitter that takes the largest gap wherever it is
RECURSIVE SplitLinesAnywhere(_, _, _)
SplitLinesAnywhere(lines, min_batch_size, max_batch_size) ==
    IF Len(lines) <= max_batch_size THEN <<lines>>
    ELSE LET candidates == 1..(Len(lines) - 1)
             gap(k) == lines[k + 1].start - LineEnd(lines[k])
             split_index == CHOOSE k \in candidates :
                                   \A m \in candidates :
                                       gap(k) > gap(m) \/ (gap(k) = gap(m) /\ k <= m)
         IN SplitLinesAnywhere(SubSeq(lines, 1, split_index), min_batch_size, max_batch_size)
            \o SplitLinesAnywhere(SubSeq(lines, split_index + 1, Len(lines)), min_batch_size, max_batch_size)

\* SubtitleBatcher._split_lines: a group longer than max_batch_size is split at its
\* largest gap, the earliest one among equals, leaving min_batch_size lines on each side
RECURSIVE SplitLines(_, _, _)
SplitLines(lines, min_batch_size, max_batch_size) ==
    IF Len(lines) <= max_batch_size THEN <<lines>>
    ELSE LET candidates == min_batch_size..(Len(lines) - min_batch_size)
             gap(k) == lines[k + 1].start - LineEnd(lines[k])
             split_index == CHOOSE k \in candidates :
                                   \A m \in candidates :
                                       gap(k) > gap(m) \/ (gap(k) = gap(m) /\ k <= m)
         IN IF candidates = {} THEN <<lines>>
            ELSE SplitLines(SubSeq(lines, 1, split_index), min_batch_size, max_batch_size)
                 \o SplitLines(SubSeq(lines, split_index + 1, Len(lines)), min_batch_size, max_batch_size)

\* the scene groups of the batcher: a new scene starts where the gap to the
\* previous line reaches scene_threshold
RECURSIVE SceneGroups(_, _)
SceneGroups(lines, scene_threshold) ==
    IF lines = <<>> THEN <<>>
    ELSE LET breaks == {k \in 1..(Len(lines) - 1) :
                            lines[k + 1].start - LineEnd(lines[k]) >= scene_threshold}
             cut == IF breaks = {} THEN Len(lines) ELSE Min(breaks)
         IN <<SubSeq(lines, 1, cut)>> \o SceneGroups(SubSeq(lines, cut + 1, Len(lines)), scene_threshold)

\* SubtitleBatcher.BatchSubtitles: scenes and batches numbered from 1
BatchSubtitles(lines, settings) ==
    LET groups == SceneGroups(lines, settings.scene_threshold)
    IN [i \in 1..Len(groups) |->
        [number |-> i,
         batches |-> LET parts == SplitLines(groups[i], settings.min_batch_size, settings.max_batch_size)
                     IN [j \in 1..Len(parts) |->
                            [scene |-> i, number |-> j, originals |-> parts[j], translated |-> <<>>]]]]

\* SubtitleEditor.AutoBatch
AutoBatch(ss, settings) ==
    IF originals # <<>> THEN BatchSubtitles(originals, settings) ELSE ss

\* ------------------------------------------------------------------------
\* Inputs of the editor operations
\* ------------------------------------------------------------------------
scene_threshold == 5      \* the scene_threshold option, in seconds
SceneNumberInputs == {1, 2}
SceneNumberArgs == {1, 2, 3}
BatchNumberArgs == {1, 2}

\* what a batch handed to AddScene may hold: valid originals, a translated
\* line, only an invalid line, a translation without its original, an invalid
\* translation, an original without start with its translation, and nothing
BatchContentInputs ==
    { [originals |-> <<Line(1, 2), Line(2, 4)>>, translated |-> <<>>],
      [originals |-> <<Line(1, 2)>>, translated |-> <<Line(1, 2)>>],
      [originals |-> <<Line(0, 2)>>, translated |-> <<>>],
      [originals |-> <<Line(3, 6)>>, translated |-> <<Line(4, 8)>>],
      [originals |-> <<Line(3, 6)>>, translated |-> <<Line(0, 6)>>],
      [originals |-> <<Line(4, NoStart)>>, translated |-> <<Line(4, 8)>>],
      [originals |-> <<>>, translated |-> <<>>] }

\* a batch built by the caller carries the numbers the caller gave it
BatchInputs ==
    {[scene |-> 2, number |-> 2, originals |-> c.originals, translated |-> c.translated] :
        c \in BatchContentInputs}

\* the scenes handed to AddScene: any number, without batches or with one batch
SceneInputs ==
    {[number |-> n, batches |-> bs] :
        n \in SceneNumberInputs, bs \in {<<>>} \cup {<<b>> : b \in BatchInputs}}

\* the lines of a loaded subtitle file: numbered from 1, one second long, each
\* following the previous one after a short gap or after a scene break
RECURSIVE FileFromGaps(_)
FileFromGaps(gaps) ==
    IF gaps = <<>> THEN <<>>
    ELSE LET before == FileFromGaps(SubSeq(gaps, 1, Len(gaps) - 1))
             start == IF before = <<>> THEN gaps[1]
                      ELSE LineEnd(before[Len(before)]) + gaps[Len(gaps)]
         IN Append(before, Line(Len(gaps), start))

LoadedFiles ==
    {FileFromGaps(gaps) : gaps \in UNION {[1..n -> {1, scene_threshold}] : n \in 0..MaxLoadedLines}}

BatcherSettings ==
    {[scene_threshold |-> scene_threshold, min_batch_size |-> 1, max_batch_size |-> m] : m \in {1, 2}}

\* scene number lists: too short, in and out of order, with a gap, with a
\* number no scene has, and three in a row
MergeSceneArgs == {<<>>, <<1>>, <<1, 2>>, <<2, 1>>, <<1, 3>>, <<2, 3>>, <<1, 2, 3>>, <<3, 4>>}

\* line number lists: one line or two neighbours to delete, two neighbours to merge
DeleteListArgs == {{0}, {1}, {3}, {1, 2}}
MergeLineArgs == {{1, 2}, {3, 4}}

\* batch number lists: none, one, two in a row
MergeBatchArgs == {{}, {2}, {1, 2}}

\* ------------------------------------------------------------------------
\* The editor operations as steps on a Subtitles object
\* ------------------------------------------------------------------------
EditorInit ==
    /\ scenes = <<>>
    /\ originals \in LoadedFiles
    /\ lastOp = [op |-> "init", ok |-> TRUE]

EditorIdle ==
    /\ scenes = <<>>
    /\ originals = <<>>
    /\ lastOp = [op |-> "init", ok |-> TRUE]

\* the operation returned and left scenes ss
Returned(op, ss) ==
    /\ scenes' = ss
    /\ originals' = ProjectOriginals(ss)
    /\ lastOp' = [op |-> op, ok |-> TRUE]
    /\ UNCHANGED notEditorVars

\* the operation raised before changing anything; lastOp does not keep which one
Raised ==
    /\ lastOp' = [op |-> "raised", ok |-> FALSE]
    /\ UNCHANGED <<scenes, originals, notEditorVars>>

\* number of lines, original and translated, in the whole Subtitles
LineCount(ss) ==
    Len(FlattenOriginals(ss))
    + Len(Flatten([i \in 1..Len(ss) |->
          Flatten([j \in 1..Len(ss[i].batches) |-> ss[i].batches[j].translated])]))

\* number of batches in the whole Subtitles
RECURSIVE BatchCount(_)
BatchCount(ss) == IF ss = <<>> THEN 0 ELSE Len(Head(ss).batches) + BatchCount(Tail(ss))

DoAddScene(scene) ==
    /\ Len(scenes) < MaxAddedScenes
    /\ BatchCount(scenes) + Len(scene.batches) <= MaxBatches
    /\ LineCount(scenes) + LineCount(<<scene>>) <= MaxLines
    /\ Returned("AddScene", AddScene(scenes, scene))

DoDeleteLines(nums) ==
    IF DeleteLinesRaises(scenes, nums)
    THEN Raised
    ELSE Returned("DeleteLines", DeleteLines(scenes, nums))

DoMergeScenes(nums) ==
    IF MergeScenesRaises(scenes, nums)
    THEN Raised
    ELSE Returned("MergeScenes", MergeScenes(scenes, nums))

DoMergeBatches(scene_number, nums) ==
    IF MergeBatchesRaises(scenes, scene_number, nums)
    THEN Raised
    ELSE Returned("MergeBatches", MergeBatches(scenes, scene_number, nums))

DoMergeLinesInBatch(scene_number, batch_number, nums) ==
    IF MergeLinesInBatchRaises(scenes, scene_number, batch_number, nums)
    THEN Raised
    ELSE Returned("MergeLinesInBatch", MergeLinesInBatch(scenes, scene_number, batch_number, nums))

DoSplitScene(scene_number, batch_number) ==
    IF SplitSceneRaises(scenes, scene_number, batch_number)
    THEN Raised
    ELSE /\ Len(scenes) < MaxScenes
         /\ Returned("SplitScene", SplitScene(scenes, scene_number, batch_number))

DoAutoBatch(settings) ==
    /\ Len(AutoBatch(scenes, settings)) <= MaxScenes
    /\ Returned("AutoBatch", AutoBatch(scenes, settings))

DoSanitise ==
    Returned("Sanitise", Sanitise(scenes))

EditorNext ==
    \/ \E scene \in SceneInputs : DoAddScene(scene)
    \/ \E nums \in DeleteListArgs : DoDeleteLines(nums)
    \/ \E nums \in MergeSceneArgs : DoMergeScenes(nums)
    \/ \E n \in SceneNumberArgs, nums \in MergeBatchArgs : DoMergeBatches(n, nums)
    \/ \E n \in SceneNumberArgs, b \in BatchNumberArgs, nums \in MergeLineArgs :
          DoMergeLinesInBatch(n, b, nums)
    \/ \E n \in SceneNumberArgs, b \in BatchNumberArgs : DoSplitScene(n, b)
    \/ \E settings \in BatcherSettings : DoAutoBatch(settings)
    \/ DoSanitise

\* SubtitleEditor.DuplicateOriginalsAsTranslations from batch j of scene i on: the
\* batches are visited in order, a batch with translations raises, any other
\* batch gets a copy of its originals as its translated lines
RECURSIVE DuplicateFrom(_, _, _)
DuplicateFrom(ss, i, j) ==
    IF i > Len(ss) THEN [scenes |-> ss, raised |-> FALSE]
    ELSE IF j > Len(ss[i].batches) THEN DuplicateFrom(ss, i + 1, 1)
    ELSE IF ss[i].batches[j].translated # <<>> THEN [scenes |-> ss, raised |-> TRUE]
    ELSE DuplicateFrom(
            [ss EXCEPT ![i].batches[j].translated =
                [k \in 1..Len(ss[i].batches[j].originals) |->
                    Line(ss[i].batches[j].originals[k].number, ss[i].batches[j].originals[k].start)]],
            i, j + 1)

DuplicateOriginalsAsTranslations(ss) == DuplicateFrom(ss, 1, 1)

\* batched Subtitles: up to MaxDuplicateScenes scenes of up to MaxDuplicateBatches
\* batches of one line each, every batch translated or not
DuplicateLayouts ==
    UNION {[1..n -> UNION {[1..m -> BOOLEAN] : m \in 1..MaxDuplicateBatches}] :
              n \in 1..MaxDuplicateScenes}

SubtitlesOfLayout(layout) ==
    [i \in 1..Len(layout) |->
        [number |-> i,
         batches |-> [j \in 1..Len(layout[i]) |->
            LET n == MaxDuplicateBatches * (i - 1) + j
            IN [scene |-> i, number |-> j,
                originals |-> <<Line(n, 2 * n)>>,
                translated |-> IF layout[i][j] THEN <<Line(n, 2 * n)>> ELSE <<>>]]]]

DuplicateInit ==
    /\ scenes \in {SubtitlesOfLayout(layout) : layout \in DuplicateLayouts}
    /\ originals = FlattenOriginals(scenes)
    /\ lastOp = [op |-> "init", ok |-> TRUE]

DoDuplicateOriginalsAsTranslations ==
    LET duplicated == DuplicateOriginalsAsTranslations(scenes)
    IN /\ scenes' = duplicated.scenes
       /\ lastOp' = IF duplicated.raised THEN [op |-> "raised", ok |-> FALSE]
                     ELSE [op |-> "DuplicateOriginalsAsTranslations", ok |-> TRUE]
       /\ UNCHANGED <<originals, notEditorVars>>

\* the four operations on batched Subtitles
DuplicateNext ==
    \/ \E nums \in DeleteListArgs : DoDeleteLines(nums)
    \/ \E nums \in MergeSceneArgs : DoMergeScenes(nums)
    \/ \E n \in SceneNumberArgs, b \in BatchNumberArgs : DoSplitScene(n, b)
    \/ DoDuplicateOriginalsAsTranslations

\* ------------------------------------------------------------------------
\* Translation runs: the translator's events and the project's handlers
\* ------------------------------------------------------------------------
\* an event as a subscriber of `source` sees it; batch is 0 for a scene event
Event(source, kind, scene, batch) == [source |-> source, kind |-> kind, scene |-> scene, batch |-> batch]

\* a plausible slip: the handler marks the project dirty but does not re-emit
_on_batch_translated_silent(scene, batch) ==
    [needs_writing |-> use_project_file, emitted |-> <<>>]

\* SubtitleProject._on_batch_translated
_on_batch_translated(scene, batch) ==
    [needs_writing |-> use_project_file,
     emitted |-> <<Event("project", "batch_translated", scene, batch)>>]

\* SubtitleProject._on_scene_translated
_on_scene_translated(scene) ==
    [needs_writing |-> use_project_file,
     emitted |-> <<Event("project", "scene_translated", scene, 0)>>]

\* translator.events.<kind>(...): the signal reaches the translator's own
\* subscribers and, synchronously, the project's handler if it is connected
Emit(kind, scene, batch) ==
    LET handled == IF kind = "batch_translated" THEN _on_batch_translated(scene, batch)
                   ELSE _on_scene_translated(scene)
    IN IF kind \in subscribed
       THEN /\ evLog' = Append(evLog, Event("translator", kind, scene, batch)) \o handled.emitted
            /\ needs_writing' = handled.needs_writing
       ELSE /\ evLog' = Append(evLog, Event("translator", kind, scene, batch))
            /\ UNCHANGED needs_writing

SubtitlesHandlers == {"preprocessed", "batch_translated", "scene_translated"}
SceneHandlers == {"preprocessed", "batch_translated"}

SceneLayouts == UNION {[1..n -> 0..MaxSceneBatches] : n \in 1..MaxRunScenes}

EventsInit ==
    /\ batchCounts \in SceneLayouts
    /\ use_project_file \in BOOLEAN
    /\ needs_writing = FALSE
    /\ subscribed = {}
    /\ run = [method |-> "none", state |-> "idle"]
    /\ trScene = 0
    /\ trBatch = 0
    /\ runs = 0
    /\ evLog = <<>>

EventsIdle ==
    /\ batchCounts = <<>>
    /\ use_project_file = FALSE
    /\ needs_writing = FALSE
    /\ subscribed = {}
    /\ run = [method |-> "none", state |-> "idle"]
    /\ trScene = 0
    /\ trBatch = 0
    /\ runs = 0
    /\ evLog = <<>>

\* SubtitleProject.TranslateSubtitles up to the call of the translator
ProjectTranslateSubtitles ==
    /\ run.state # "running"
    /\ runs < MaxRuns
    /\ run' = [method |-> "TranslateSubtitles", state |-> "running"]
    /\ subscribed' = subscribed \cup SubtitlesHandlers
    /\ trScene' = 1
    /\ trBatch' = 1
    /\ runs' = runs + 1
    /\ evLog' = <<>>
    /\ UNCHANGED <<batchCounts, use_project_file, needs_writing, notEventVars>>

\* SubtitleProject.TranslateScene up to the call of the translator
ProjectTranslateScene(scene_number) ==
    /\ run.state # "running"
    /\ runs < MaxRuns
    /\ run' = [method |-> "TranslateScene", state |-> "running"]
    /\ subscribed' = subscribed \cup SceneHandlers
    /\ trScene' = scene_number
    /\ trBatch' = 1
    /\ runs' = runs + 1
    /\ evLog' = <<>>
    /\ UNCHANGED <<batchCounts, use_project_file, needs_writing, notEventVars>>

\* a plausible slip: the translator goes on to the next batch without telling anyone
TranslatorBatchSkipped ==
    /\ run.state = "running"
    /\ trScene <= Len(batchCounts)
    /\ trBatch <= batchCounts[trScene]
    /\ trBatch' = trBatch + 1
    /\ UNCHANGED <<batchCounts, use_project_file, needs_writing, subscribed, run, trScene, runs,
                   evLog, notEventVars>>

\* the translator has translated the next batch of the scene and tells its observers
TranslatorBatchTranslated ==
    /\ run.state = "running"
    /\ trScene <= Len(batchCounts)
    /\ trBatch <= batchCounts[trScene]
    /\ Emit("batch_translated", trScene, trBatch)
    /\ trBatch' = trBatch + 1
    /\ UNCHANGED <<batchCounts, use_project_file, subscribed, run, trScene, runs, notEventVars>>

\* the translator has walked all batches of the scene and tells its observers
TranslatorSceneTranslated ==
    /\ run.state = "running"
    /\ trScene <= Len(batchCounts)
    /\ trBatch > batchCounts[trScene]
    /\ Emit("scene_translated", trScene, 0)
    /\ trScene' = IF run.method = "TranslateScene" THEN Len(batchCounts) + 1 ELSE trScene + 1
    /\ trBatch' = 1
    /\ UNCHANGED <<batchCounts, use_project_file, subscribed, run, runs, notEventVars>>

\* the translator returns: TranslateSubtitles disconnects its three handlers,
\* TranslateScene its two in the finally clause
TranslatorReturns ==
    /\ run.state = "running"
    /\ trScene > Len(batchCounts)
    /\ run' = [run EXCEPT !.state = "returned"]
    /\ subscribed' = subscribed \ (IF run.method = "TranslateSubtitles" THEN SubtitlesHandlers
                                    ELSE SceneHandlers)
    /\ UNCHANGED <<batchCounts, use_project_file, needs_writing, trScene, trBatch, runs, evLog,
                   notEventVars>>

\* the translator raises, TranslationAbortedError or another error: the except
\* clauses of TranslateSubtitles leave the handlers connected, the finally
\* clause of TranslateScene disconnects them
TranslatorRaises(error) ==
    /\ run.state = "running"
    /\ run' = [run EXCEPT !.state = error]
    /\ subscribed' = IF run.method = "TranslateSubtitles" THEN subscribed
                     ELSE subscribed \ SceneHandlers
    /\ UNCHANGED <<batchCounts, use_project_file, needs_writing, trScene, trBatch, runs, evLog,
                   notEventVars>>

EventsNext ==
    \/ ProjectTranslateSubtitles
    \/ \E n \in 1..Len(batchCounts) : ProjectTranslateScene(n)
    \/ TranslatorBatchTranslated
    \/ TranslatorSceneTranslated
    \/ TranslatorReturns
    \/ \E error \in {"aborted", "failed"} : TranslatorRaises(error)

\* ------------------------------------------------------------------------
\* The custom HTTP client: one request with its retries
\* ------------------------------------------------------------------------
StatusCodes == {200, 400, 401, 429, 500, 502}

\* httpx.Response.is_client_error and is_server_error
is_client_error(status_code) == 400 <= status_code /\ status_code < 500
is_server_error(status_code) == 500 <= status_code /\ status_code < 600

\* the answers a server of each kind gives
ServerAnswers(kind) ==
    IF kind = "always5xx" THEN {c \in StatusCodes : is_server_error(c)}
    ELSE IF kind = "always4xx" THEN {c \in StatusCodes : is_client_error(c)}
    ELSE StatusCodes

RECURSIVE Pow2(_)
Pow2(n) == IF n = 0 THEN 1 ELSE 2 * Pow2(n - 1)

max_backoff == 60

\* the pause before the next attempt: backoff_time doubled with every retry, at most 60 s
BackoffDelay(backoff_time, retry) ==
    IF backoff_time * Pow2(retry) > max_backoff THEN max_backoff ELSE backoff_time * Pow2(retry)

\* a plausible slip: the rate-limit answer 429 is taken for a transient failure
NotRetriedExcept429(status_code) == is_client_error(status_code) /\ status_code # 429

\* a 4xx answer is raised to the caller as ClientResponseError, never retried
NotRetried(status_code) == is_client_error(status_code)

\* a plausible slip: the last retry is never made
RetriesExhaustedEarly(retry, max_retries) == retry + 1 >= max_retries

\* no attempt is left after attempt number retry (counted from 0)
RetriesExhausted(retry, max_retries) == retry >= max_retries

CustomSettings ==
    [max_retries : 0..MaxRetries, backoff_time : {1, 25}, stream_responses : BOOLEAN]

CustomInit ==
    /\ ccSettings \in CustomSettings
    /\ ccServer \in {"always5xx", "always4xx", "any"}
    /\ ccState = "sending"
    /\ ccRetry = 0
    /\ ccStatuses = <<>>
    /\ ccSlept = 0
    /\ ccCalls = [post |-> 0, stream |-> 0]

CustomIdle ==
    /\ ccSettings = [max_retries |-> 0, backoff_time |-> 1, stream_responses |-> FALSE]
    /\ ccServer = "any"
    /\ ccState = "idle"
    /\ ccRetry = 0
    /\ ccStatuses = <<>>
    /\ ccSlept = 0
    /\ ccCalls = [post |-> 0, stream |-> 0]

\* one attempt: the request is posted, or the stream opened when responses
\* are streamed, the server answers, and the answer is classified
SendAttempt(status_code) ==
    /\ ccState = "sending"
    /\ status_code \in ServerAnswers(ccServer)
    /\ ccCalls' = IF ccSettings.stream_responses
                  THEN [ccCalls EXCEPT !.stream = @ + 1]
                  ELSE [ccCalls EXCEPT !.post = @ + 1]
    /\ ccStatuses' = Append(ccStatuses, status_code)
    /\ ccState' = IF status_code < 400 THEN "returned"
                  ELSE IF NotRetried(status_code) THEN "ClientResponseError"
                  ELSE IF RetriesExhausted(ccRetry, ccSettings.max_retries)
                       THEN "TranslationImpossibleError"
                  ELSE "backoff"
    /\ UNCHANGED <<ccSettings, ccServer, ccRetry, ccSlept, notCustomVars>>

\* the pause between two attempts
Backoff ==
    /\ ccState = "backoff"
    /\ ccSlept' = ccSlept + BackoffDelay(ccSettings.backoff_time, ccRetry)
    /\ ccRetry' = ccRetry + 1
    /\ ccState' = "sending"
    /\ UNCHANGED <<ccSettings, ccServer, ccStatuses, ccCalls, notCustomVars>>

CustomNext ==
    \/ \E status_code \in StatusCodes : SendAttempt(status_code)
    \/ Backoff

\* ------------------------------------------------------------------------
\* The OpenAI reasoning client: one request, streamed or not, and its abort
\* ------------------------------------------------------------------------
\* a text is a sequence of tokens; linesep is the newline the client joins parts with
linesep == "\n"

\* the text parts a response output may hold
PartTexts == {<<"a">>, <<"a", "b">>}

Responses == UNION {[1..n -> PartTexts] : n \in 1..MaxParts}

\* how the stream ends: with a terminal event, without one, or with an error
Endings == {"completed", "incomplete", "failed", "dropped", "error", "bad_request_iter",
            "bad_request"}

Servers == [response : Responses, ending : Endings]

\* the server streams every part token by token
RECURSIVE DeltaEvents(_)
DeltaEvents(text) ==
    IF text = <<>> THEN <<>>
    ELSE <<[type |-> "response.output_text.delta", delta |-> <<Head(text)>>]>>
         \o DeltaEvents(Tail(text))

OtherEvent(type) == [type |-> type, delta |-> <<>>]

\* the events of the stream: an event the loop ignores, the deltas of all
\* parts, the ending, and a delta that a server may still send after it
StreamEvents(srv) ==
    LET deltas == DeltaEvents(Flatten(srv.response))
        stray == <<[type |-> "response.output_text.delta", delta |-> <<"b">>]>>
    IN <<OtherEvent("response.created")>> \o
       (CASE srv.ending = "completed" -> deltas \o <<OtherEvent("response.completed")>> \o stray
          [] srv.ending = "incomplete" -> deltas \o <<OtherEvent("response.incomplete")>> \o stray
          [] srv.ending = "failed" -> SubSeq(deltas, 1, 1) \o <<OtherEvent("response.failed")>> \o stray
          [] srv.ending = "error" -> deltas \o <<OtherEvent("raise Exception")>>
          [] srv.ending = "bad_request_iter" -> deltas \o <<OtherEvent("raise BadRequestError")>>
          [] OTHER -> deltas)

\* event.response of a terminal event: the text parts of its output
EventResponse(srv, type) == IF type = "response.failed" THEN <<>> ELSE srv.response

\* OpenAIReasoningClient._extract_text_content: the text parts joined by linesep
RECURSIVE JoinParts(_)
JoinParts(parts) ==
    IF Len(parts) = 1 THEN parts[1]
    ELSE parts[1] \o <<linesep>> \o JoinParts(Tail(parts))

\* the text a subscriber has after the deltas pushed so far
PushedText == Flatten([i \in 1..Len(pushed) |-> pushed[i].delta])

\* the response object _get_client_response hands to _send_messages
OpenAIResponse ==
    IF request_is_streaming THEN EventResponse(server, StreamEvents(server)[evIdx].type)
    ELSE server.response

StreamInit ==
    /\ request_is_streaming \in BOOLEAN
    /\ server \in Servers
    /\ pc = "start"
    /\ evIdx = 0
    /\ outcome = "pending"
    /\ pushed = <<>>
    /\ is_streaming = FALSE
    /\ aborted = FALSE
    /\ abPc = "idle"
    /\ transportClosed = FALSE
    /\ abortWhen = "never"
    /\ fetchedAtAbort = 0
    /\ hookWhen = "never"
    /\ result = "pending"

StreamIdle ==
    /\ request_is_streaming = FALSE
    /\ server = [response |-> <<<<"a">>>>, ending |-> "completed"]
    /\ pc = "done"
    /\ evIdx = 0
    /\ outcome = "pending"
    /\ pushed = <<>>
    /\ is_streaming = FALSE
    /\ aborted = FALSE
    /\ abPc = "done"
    /\ transportClosed = FALSE
    /\ abortWhen = "never"
    /\ fetchedAtAbort = 0
    /\ hookWhen = "never"
    /\ result = "pending"

\* _get_client_response calls client.responses.create, with stream=True for a
\* streaming request; the call blocks until the server has answered
BeginCreate ==
    /\ pc = "start"
    /\ pc' = "creating"
    /\ UNCHANGED <<request_is_streaming, server, evIdx, outcome, pushed, is_streaming, aborted,
                   abPc, transportClosed, abortWhen, fetchedAtAbort, hookWhen, result,
                   notStreamVars>>

\* responses.create returns or raises: a closed transport makes it raise a
\* connection error, a rejected request BadRequestError, which both callers
\* turn into TranslationError; a streaming request gets the stream, the other
\* the response
EndCreate ==
    /\ pc = "creating"
    /\ IF transportClosed
       THEN pc' = "done" /\ result' = "APIConnectionError" /\ UNCHANGED outcome
       ELSE IF server.ending = "bad_request"
       THEN pc' = "done" /\ result' = "TranslationError" /\ UNCHANGED outcome
       ELSE IF request_is_streaming
       THEN pc' = "created" /\ UNCHANGED <<result, outcome>>
       ELSE pc' = "send" /\ outcome' = "response" /\ UNCHANGED result
    /\ UNCHANGED <<request_is_streaming, server, evIdx, pushed, is_streaming, aborted, abPc,
                   transportClosed, abortWhen, fetchedAtAbort, hookWhen, notStreamVars>>

\* _handle_streaming_response: self._is_streaming = True, after the stream is there
SetStreaming ==
    /\ pc = "created"
    /\ is_streaming' = TRUE
    /\ pc' = "loop"
    /\ UNCHANGED <<request_is_streaming, server, evIdx, outcome, pushed, aborted, abPc,
                   transportClosed, abortWhen, fetchedAtAbort, hookWhen, result, notStreamVars>>

\* `for event in stream`: the next event is taken, the stream is at its end,
\* or the iteration raises
FetchEvent ==
    /\ pc = "loop"
    /\ IF transportClosed
       THEN outcome' = "warned" /\ pc' = "finally" /\ UNCHANGED evIdx
       ELSE IF evIdx = Len(StreamEvents(server))
       THEN outcome' = "exhausted" /\ pc' = "finally" /\ UNCHANGED evIdx
       ELSE /\ evIdx' = evIdx + 1
            /\ LET type == StreamEvents(server)[evIdx + 1].type
               IN IF type = "raise Exception"
                  THEN outcome' = "warned" /\ pc' = "finally"
                  ELSE IF type = "raise BadRequestError"
                  THEN outcome' = "TranslationError" /\ pc' = "finally"
                  ELSE pc' = "fetched" /\ UNCHANGED outcome
    /\ UNCHANGED <<request_is_streaming, server, pushed, is_streaming, aborted, abPc,
                   transportClosed, abortWhen, fetchedAtAbort, hookWhen, result, notStreamVars>>

\* a plausible slip: the loop handles the event without looking at the flag
CheckAbortedSkipped ==
    /\ pc = "fetched"
    /\ pc' = "checked"
    /\ UNCHANGED <<request_is_streaming, server, evIdx, outcome, pushed, is_streaming, aborted,
                   abPc, transportClosed, abortWhen, fetchedAtAbort, hookWhen, result,
                   notStreamVars>>

\* `if self.aborted: return`, the first statement of the loop body
CheckAborted ==
    /\ pc = "fetched"
    /\ IF aborted
       THEN outcome' = "return None" /\ pc' = "finally"
       ELSE pc' = "checked" /\ UNCHANGED outcome
    /\ UNCHANGED <<request_is_streaming, server, evIdx, pushed, is_streaming, aborted, abPc,
                   transportClosed, abortWhen, fetchedAtAbort, hookWhen, result, notStreamVars>>

\* the rest of the loop body: a delta is pushed to the request, a terminal
\* event returns its response, any other event is passed over
HandleEvent ==
    /\ pc = "checked"
    /\ LET event == StreamEvents(server)[evIdx]
       IN IF event.type = "response.output_text.delta"
          THEN /\ pushed' = Append(pushed, [index |-> evIdx, delta |-> event.delta])
               /\ pc' = "loop"
               /\ UNCHANGED outcome
          ELSE IF event.type \in {"response.completed", "response.failed", "response.incomplete"}
          THEN /\ outcome' = "response"
               /\ pc' = "finally"
               /\ UNCHANGED pushed
          ELSE /\ pc' = "loop"
               /\ UNCHANGED <<outcome, pushed>>
    /\ UNCHANGED <<request_is_streaming, server, evIdx, is_streaming, aborted, abPc,
                   transportClosed, abortWhen, fetchedAtAbort, hookWhen, result, notStreamVars>>

\* the finally clause, then what follows the try statement: a loop left
\* without return raises TranslationResponseError
Finally ==
    /\ pc = "finally"
    /\ is_streaming' = FALSE
    /\ IF outcome \in {"warned", "exhausted"}
       THEN pc' = "done" /\ result' = "TranslationResponseError"
       ELSE IF outcome = "TranslationError"
       THEN pc' = "done" /\ result' = "TranslationError"
       ELSE pc' = "send" /\ UNCHANGED result
    /\ UNCHANGED <<request_is_streaming, server, evIdx, outcome, pushed, aborted, abPc,
                   transportClosed, abortWhen, fetchedAtAbort, hookWhen, notStreamVars>>

\* _send_messages after _get_client_response: None if aborted or without a
\* response, else the response with the extracted text
SendReturn ==
    /\ pc = "send"
    /\ pc' = "done"
    /\ result' = IF aborted \/ outcome = "return None" THEN "None"
                 ELSE IF OpenAIResponse = <<>> THEN "TranslationResponseError"
                 ELSE "response"
    /\ UNCHANGED <<request_is_streaming, server, evIdx, outcome, pushed, is_streaming, aborted,
                   abPc, transportClosed, abortWhen, fetchedAtAbort, hookWhen, notStreamVars>>

\* another thread aborts the translation: the flag is set
AbortSet ==
    /\ abPc = "idle"
    /\ pc # "done"
    /\ aborted' = TRUE
    /\ abPc' = "flagged"
    /\ abortWhen' = pc
    /\ fetchedAtAbort' = evIdx
    /\ UNCHANGED <<request_is_streaming, server, pc, evIdx, outcome, pushed, is_streaming,
                   transportClosed, hookWhen, result, notStreamVars>>

\* OpenAIReasoningClient._abort, called by the aborting thread after the flag
\* is set: nothing while streaming, else the transport is closed
_abort ==
    /\ abPc = "flagged"
    /\ abPc' = "done"
    /\ hookWhen' = pc
    /\ transportClosed' = IF is_streaming THEN transportClosed ELSE TRUE
    /\ UNCHANGED <<request_is_streaming, server, pc, evIdx, outcome, pushed, is_streaming,
                   aborted, abortWhen, fetchedAtAbort, result, notStreamVars>>

StreamNext ==
    \/ BeginCreate
    \/ EndCreate
    \/ SetStreaming
    \/ FetchEvent
    \/ CheckAborted
    \/ HandleEvent
    \/ Finally
    \/ SendReturn
    \/ AbortSet
    \/ _abort

\* ------------------------------------------------------------------------
\* SubtitleProject: saving the project file and the translation
\* ------------------------------------------------------------------------
\* `project` is a SubtitleProject with an output path and a project file path;
\* scenes and any_translated are those of its Subtitles, project_written and
\* translation_written tell which files the call in progress (or the last
\* call) has written

\* the files written so far are forgotten when a new call starts
NewCall(p) == [p EXCEPT !.project_written = FALSE, !.translation_written = FALSE]

\* SubtitleProject.SaveTranslation
SaveTranslation(p) == [p EXCEPT !.translation_written = TRUE]

\* SubtitleProject.SaveProjectFile, called when the Subtitles have scenes
SaveProjectFile(p) == [p EXCEPT !.project_written = TRUE, !.needs_writing = FALSE]

\* a plausible slip: the project file is never updated
UpdateProjectFileSkipped(p) == p

\* SubtitleProject.UpdateProjectFile
UpdateProjectFile(p) ==
    IF p.needs_writing /\ p.scenes THEN SaveProjectFile(p) ELSE p

\* SubtitleProject.SaveProject
SaveProject(p) ==
    IF p.needs_writing
    THEN LET afterProject == IF p.use_project_file THEN UpdateProjectFile(p) ELSE p
             afterTranslation == IF afterProject.any_translated /\ afterProject.write_translation
                                 THEN SaveTranslation(afterProject)
                                 ELSE afterProject
         IN [afterTranslation EXCEPT !.needs_writing = FALSE]
    ELSE p

\* a plausible slip: the partial translation is saved whatever the settings say
save_translation_always(p, t) == TRUE

\* the local save_translation of SubtitleProject.TranslateSubtitles
save_translation(p, t) == p.write_translation /\ ~t.preview

\* the projects a caller can have after construction and InitialiseProject:
\* without scenes nothing is translated, and needs_writing is use_project_file
\* when an output path was given
Projects ==
    {p \in [use_project_file : BOOLEAN, write_translation : BOOLEAN, needs_writing : BOOLEAN,
            scenes : BOOLEAN, any_translated : BOOLEAN,
            project_written : {FALSE}, translation_written : {FALSE}] :
        /\ p.any_translated => p.scenes
        /\ p.needs_writing => p.use_project_file}

NoCall == [method |-> "none", state |-> "idle", error |-> "none"]

SaveInit ==
    /\ project \in Projects
    /\ translator = [preview |-> FALSE, aborted |-> FALSE]
    /\ pjCall = NoCall

SaveIdle ==
    /\ project = [use_project_file |-> FALSE, write_translation |-> TRUE, needs_writing |-> FALSE,
                  scenes |-> FALSE, any_translated |-> FALSE,
                  project_written |-> FALSE, translation_written |-> FALSE]
    /\ translator = [preview |-> FALSE, aborted |-> FALSE]
    /\ pjCall = NoCall

\* SubtitleProject.TranslateSubtitles up to the call of the translator, which
\* is a translator in preview mode or not
CallTranslateSubtitles(preview) ==
    /\ pjCall.state # "translating"
    /\ project.scenes
    /\ project' = UpdateProjectFile(NewCall(project))
    /\ translator' = [preview |-> preview, aborted |-> FALSE]
    /\ pjCall' = [method |-> "TranslateSubtitles", state |-> "translating", error |-> "none"]
    /\ UNCHANGED notSaveVars

\* the translator has translated a batch: SubtitleProject._on_batch_translated
BatchTranslated ==
    /\ pjCall.state = "translating"
    /\ project' = [project EXCEPT !.any_translated = TRUE,
                                  !.needs_writing = project.use_project_file]
    /\ UNCHANGED <<translator, pjCall, notSaveVars>>

\* SubtitleTranslator.StopTranslating, called from another thread
StopTranslating ==
    /\ pjCall.state = "translating"
    /\ ~translator.aborted
    /\ translator' = [translator EXCEPT !.aborted = TRUE]
    /\ UNCHANGED <<project, pjCall, notSaveVars>>

\* translator.TranslateSubtitles returns: the rest of the try block
TranslationReturns ==
    /\ pjCall.state = "translating"
    /\ project' = IF save_translation(project, translator) /\ ~translator.aborted
                  THEN SaveTranslation(project)
                  ELSE project
    /\ pjCall' = [pjCall EXCEPT !.state = "returned"]
    /\ UNCHANGED <<translator, notSaveVars>>

\* translator.TranslateSubtitles raises TranslationAbortedError: the first except clause
TranslationAborted ==
    /\ pjCall.state = "translating"
    /\ translator.aborted
    /\ pjCall' = [pjCall EXCEPT !.state = "returned", !.error = "aborted"]
    /\ UNCHANGED <<project, translator, notSaveVars>>

\* translator.TranslateSubtitles raises another error: the second except clause
TranslationFailed ==
    /\ pjCall.state = "translating"
    /\ project' = IF save_translation(project, translator) /\ project.any_translated
                  THEN SaveTranslation(project)
                  ELSE project
    /\ pjCall' = [pjCall EXCEPT !.state = "raised", !.error = "failed"]
    /\ UNCHANGED <<translator, notSaveVars>>

\* a call of SubtitleProject.SaveProject
CallSaveProject ==
    /\ pjCall.state # "translating"
    /\ project' = SaveProject(NewCall(project))
    /\ pjCall' = [method |-> "SaveProject", state |-> "returned", error |-> "none"]
    /\ UNCHANGED <<translator, notSaveVars>>

\* the last assignment of SubtitleProject.UpdateProjectSettings, made when a
\* setting changes
UpdateProjectSettings ==
    /\ pjCall.state # "translating"
    /\ project' = [project EXCEPT !.needs_writing = project.scenes /\ project.use_project_file]
    /\ pjCall' = [method |-> "UpdateProjectSettings", state |-> "returned", error |-> "none"]
    /\ UNCHANGED <<translator, notSaveVars>>

SaveNext ==
    \/ \E preview \in BOOLEAN : CallTranslateSubtitles(preview)
    \/ BatchTranslated
    \/ StopTranslating
    \/ TranslationReturns
    \/ TranslationAborted
    \/ TranslationFailed
    \/ CallSaveProject
    \/ UpdateProjectSettings

\* ------------------------------------------------------------------------
\* GuiInterface: the command queue and the autosave timer
\* ------------------------------------------------------------------------
autosave_msec == 20000
\* the timer's interval in seconds, the unit of time of the model
AutosaveDelay == autosave_msec \div 1000

Inactive == 0 - 1
NoChange == 0 - 1
NoSave == 0 - 1
\* ages are counted up to this many seconds
MaxAge == AutosaveDelay + MaxLate

\* commands: one that marks the project dirty when it has run, SaveSubtitleFile
\* (mark_project_dirty = False) and the save command GuiInterface.SaveProject queues
CommandKinds == {"edit", "SaveSubtitleFile", "SaveProjectFile"}

\* QTimer.start(msec) of a single-shot timer: starts it, or restarts it if it is running
QTimerStart(msec) == msec \div 1000

\* project.needs_writing after a command of this kind has run
NeedsWritingAfter(kind, before) ==
    CASE kind = "edit" -> TRUE
      [] kind = "SaveSubtitleFile" -> before
      [] kind = "SaveProjectFile" -> FALSE

Older(age) == IF age = NoChange THEN NoChange ELSE IF age < MaxAge THEN age + 1 ELSE MaxAge

AutosaveInit ==
    /\ command_queue = <<>>
    /\ completed = 0
    /\ datamodel \in [autosave_enabled : BOOLEAN, needs_writing : {FALSE}]
    /\ _autosave_timer = Inactive
    /\ sinceChange = NoChange
    /\ lastSaveAge = NoSave

AutosaveIdle ==
    /\ command_queue = <<>>
    /\ completed = 0
    /\ datamodel = [autosave_enabled |-> FALSE, needs_writing |-> FALSE]
    /\ _autosave_timer = Inactive
    /\ sinceChange = NoChange
    /\ lastSaveAge = NoSave

\* GuiInterface.QueueCommand
QueueCommand(kind) ==
    /\ Len(command_queue) < MaxCommands
    /\ command_queue' = Append(command_queue, kind)
    /\ UNCHANGED <<completed, datamodel, _autosave_timer, sinceChange, lastSaveAge,
                   notAutosaveVars>>

\* the worker has run the first command of the queue: the command leaves the
\* queue and commandExecuted is queued for the GUI thread
CommandExecuted ==
    /\ command_queue # <<>>
    /\ completed < MaxCommands
    /\ LET kind == Head(command_queue)
       IN /\ datamodel' = [datamodel EXCEPT
                               !.needs_writing = NeedsWritingAfter(kind, datamodel.needs_writing)]
          /\ sinceChange' = IF kind = "edit" THEN 0 ELSE sinceChange
    /\ command_queue' = Tail(command_queue)
    /\ completed' = completed + 1
    /\ UNCHANGED <<_autosave_timer, lastSaveAge, notAutosaveVars>>

\* GuiInterface.UpdateProjectSettings with a changed setting: the project is
\* updated on the GUI thread, without a command
GuiUpdateProjectSettings ==
    /\ datamodel' = [datamodel EXCEPT !.needs_writing = TRUE]
    /\ sinceChange' = 0
    /\ UNCHANGED <<command_queue, completed, _autosave_timer, lastSaveAge, notAutosaveVars>>

\* GuiInterface._on_command_complete
_on_command_complete ==
    /\ completed > 0
    /\ completed' = completed - 1
    /\ _autosave_timer' =
           IF command_queue = <<>> /\ datamodel.autosave_enabled /\ datamodel.needs_writing
           THEN QTimerStart(autosave_msec)
           ELSE _autosave_timer
    /\ UNCHANGED <<command_queue, datamodel, sinceChange, lastSaveAge, notAutosaveVars>>

\* one second passes; a timer that has run out fires before more time passes
Tick ==
    /\ _autosave_timer # 0
    /\ _autosave_timer > 0 \/ (sinceChange # NoChange /\ sinceChange < MaxAge)
    /\ _autosave_timer' = IF _autosave_timer > 0 THEN _autosave_timer - 1 ELSE _autosave_timer
    /\ sinceChange' = Older(sinceChange)
    /\ UNCHANGED <<command_queue, completed, datamodel, lastSaveAge, notAutosaveVars>>

\* the timer fires: GuiInterface._perform_autosave, whose SaveProject queues
\* the save command
_perform_autosave ==
    /\ _autosave_timer = 0
    /\ Len(command_queue) < MaxCommands
    /\ _autosave_timer' = Inactive
    /\ IF datamodel.autosave_enabled /\ datamodel.needs_writing
       THEN /\ command_queue' = Append(command_queue, "SaveProjectFile")
            /\ lastSaveAge' = sinceChange
       ELSE UNCHANGED <<command_queue, lastSaveAge>>
    /\ UNCHANGED <<completed, datamodel, sinceChange, notAutosaveVars>>

AutosaveNext ==
    \/ \E kind \in CommandKinds : QueueCommand(kind)
    \/ CommandExecuted
    \/ GuiUpdateProjectSettings
    \/ _on_command_complete
    \/ Tick
    \/ _perform_autosave

\* ------------------------------------------------------------------------
\* SubtitleProject.lock, Subtitles.lock and the threads that change a Subtitles
\* ------------------------------------------------------------------------
Unlocked == [owner |-> NoThread, count |-> 0]

\* acquire() of a reentrant lock can return for thread t
CanAcquire(l, t) == l.owner = NoThread \/ l.owner = t

\* the lock after acquire() by thread t
Acquired(l, t) == [owner |-> t, count |-> l.count + 1]

\* the lock after release() by its owner
Released(l) == IF l.count = 1 THEN Unlocked ELSE [l EXCEPT !.count = l.count - 1]

\* where a thread is while it changes the Subtitles through SubtitleProject
ProjectMutations == {"UpdateSettings", "UpdateOutputPath"}

AccessInit ==
    /\ subtitles_lock = Unlocked
    /\ project_lock = Unlocked
    /\ where = [t \in Threads |-> "idle"]
    /\ UpdateSettingsLocks \in BOOLEAN

AccessIdle ==
    /\ subtitles_lock = Unlocked
    /\ project_lock = Unlocked
    /\ where = [t \in Threads |-> "idle"]
    /\ UpdateSettingsLocks = FALSE

\* `with SubtitleEditor(subtitles) as editor:` is entered: SubtitleEditor.__enter__
EditorScopeEntered(t) ==
    /\ where[t] = "idle"
    /\ CanAcquire(subtitles_lock, t)
    /\ subtitles_lock' = Acquired(subtitles_lock, t)
    /\ where' = [where EXCEPT ![t] = "scope"]
    /\ UNCHANGED <<project_lock, UpdateSettingsLocks, notAccessVars>>

\* the scope is left: SubtitleEditor.__exit__
EditorScopeLeft(t) ==
    /\ where[t] = "scope"
    /\ subtitles_lock' = Released(subtitles_lock)
    /\ where' = [where EXCEPT ![t] = "idle"]
    /\ UNCHANGED <<project_lock, UpdateSettingsLocks, notAccessVars>>

\* SubtitleProject.UpdateProjectSettings: `with self.lock:` is entered
UpdateProjectSettingsLocked(t) ==
    /\ where[t] = "idle"
    /\ CanAcquire(project_lock, t)
    /\ project_lock' = Acquired(project_lock, t)
    /\ where' = [where EXCEPT ![t] = "UpdateProjectSettings"]
    /\ UNCHANGED <<subtitles_lock, UpdateSettingsLocks, notAccessVars>>

\* a setting differs: self.subtitles.UpdateSettings(filtered_settings) is
\* called and is changing the settings of the Subtitles
UpdateSettingsCalled(t) ==
    /\ where[t] = "UpdateProjectSettings"
    /\ IF UpdateSettingsLocks
       THEN /\ CanAcquire(subtitles_lock, t)
            /\ subtitles_lock' = Acquired(subtitles_lock, t)
       ELSE UNCHANGED subtitles_lock
    /\ where' = [where EXCEPT ![t] = "UpdateSettings"]
    /\ UNCHANGED <<project_lock, UpdateSettingsLocks, notAccessVars>>

\* UpdateProjectSettings returns, with or without a change of settings
UpdateProjectSettingsReturns(t) ==
    /\ where[t] \in {"UpdateProjectSettings", "UpdateSettings"}
    /\ subtitles_lock' = IF where[t] = "UpdateSettings" /\ UpdateSettingsLocks
                         THEN Released(subtitles_lock)
                         ELSE subtitles_lock
    /\ project_lock' = Released(project_lock)
    /\ where' = [where EXCEPT ![t] = "idle"]
    /\ UNCHANGED <<UpdateSettingsLocks, notAccessVars>>

\* SubtitleProject.UpdateOutputPath is assigning subtitles.outputpath and
\* subtitles.file_format
UpdateOutputPathCalled(t) ==
    /\ where[t] = "idle"
    /\ where' = [where EXCEPT ![t] = "UpdateOutputPath"]
    /\ UNCHANGED <<subtitles_lock, project_lock, UpdateSettingsLocks, notAccessVars>>

\* UpdateOutputPath returns
UpdateOutputPathReturns(t) ==
    /\ where[t] = "UpdateOutputPath"
    /\ where' = [where EXCEPT ![t] = "idle"]
    /\ UNCHANGED <<subtitles_lock, project_lock, UpdateSettingsLocks, notAccessVars>>

AccessNext ==
    \/ \E t \in Threads : EditorScopeEntered(t)
    \/ \E t \in Threads : EditorScopeLeft(t)
    \/ \E t \in Threads : UpdateProjectSettingsLocked(t)
    \/ \E t \in Threads : UpdateSettingsCalled(t)
    \/ \E t \in Threads : UpdateProjectSettingsReturns(t)
    \/ \E t \in Threads : UpdateOutputPathCalled(t)
    \/ \E t \in Threads : UpdateOutputPathReturns(t)

\* ------------------------------------------------------------------------
\* Single calls of MergeScenes and SplitScene on batched Subtitles
\* ------------------------------------------------------------------------
\* batched Subtitles as AutoBatch and RenumberScenes leave them: scenes and
\* batches numbered in order, every batch with one line of its own; a scene can
\* be without batches (SplitScene at its first batch leaves such a scene)
BatchedScenes(layout) ==
    [i \in 1..Len(layout) |->
        [number |-> i,
         batches |-> [j \in 1..layout[i] |->
                         [scene |-> i, number |-> j,
                          originals |-> <<Line((i - 1) * MaxInputBatches + j,
                                               2 * ((i - 1) * MaxInputBatches + j))>>,
                          translated |-> <<>>]]]]

InputLayouts == UNION {[1..n -> 0..MaxInputBatches] : n \in 0..MaxInputScenes}

\* the scene and batch numbers a caller passes: those that can exist and one more
SceneNumbersGiven == 1..(MaxInputScenes + 1)
BatchNumbersGiven == 1..(MaxInputBatches + 1)

\* the lists of scene numbers a caller passes to MergeScenes: every list of up
\* to MaxMergeArgs numbers, in any order, with gaps and repetitions
MergeListsGiven == UNION {[1..n -> SceneNumbersGiven] : n \in 0..MaxMergeArgs}

NotCalled == [op |-> "none", scene_number |-> 0, batch_number |-> 0, scene_numbers |-> <<>>]
\* what a call left: the error it raised, if any, and Subtitles.scenes
NothingLeft == [error |-> "none", scenes |-> <<>>]
ValueError(ss) == [error |-> "ValueError", scenes |-> ss]
Returns(ss) == [error |-> "none", scenes |-> ss]

CallsInit ==
    /\ given \in {BatchedScenes(layout) : layout \in InputLayouts}
    /\ called = NotCalled
    /\ left = NothingLeft

CallsIdle ==
    /\ given = <<>>
    /\ called = NotCalled
    /\ left = NothingLeft

\* editor.SplitScene(scene_number, batch_number)
CallSplitScene(scene_number, batch_number) ==
    /\ called = NotCalled
    /\ called' = [NotCalled EXCEPT !.op = "SplitScene", !.scene_number = scene_number,
                                   !.batch_number = batch_number]
    /\ left' = IF SplitSceneRaises(given, scene_number, batch_number)
               THEN ValueError(given)
               ELSE Returns(SplitScene(given, scene_number, batch_number))
    /\ UNCHANGED <<given, notCallsVars>>

\* editor.MergeScenes(scene_numbers)
CallMergeScenes(scene_numbers) ==
    /\ called = NotCalled
    /\ called' = [NotCalled EXCEPT !.op = "MergeScenes", !.scene_numbers = scene_numbers]
    /\ left' = IF MergeScenesRaises(given, scene_numbers)
               THEN ValueError(given)
               ELSE Returns(MergeScenes(given, scene_numbers))
    /\ UNCHANGED <<given, notCallsVars>>

CallsNext ==
    \/ \E n \in SceneNumbersGiven, b \in BatchNumbersGiven : CallSplitScene(n, b)
    \/ \E nums \in MergeListsGiven : CallMergeScenes(nums)

\* ------------------------------------------------------------------------
\* SubtitleFormatRegistry
\* ------------------------------------------------------------------------
\* str.lower() on the extensions the model uses
Lower(ext) == IF ext = ".SRT" THEN ".srt" ELSE IF ext = ".VTT" THEN ".vtt" ELSE ext

\* SUPPORTED_EXTENSIONS of the handler classes: the two found in the Formats
\* package, the two the tests register by hand, and one of equal priority
\* that spells its extension in capitals
SUPPORTED_EXTENSIONS ==
    [SrtFileHandler |-> [e \in {".srt"} |-> 10],
     VttFileHandler |-> [e \in {".vtt"} |-> 10],
     DummySrtHandler |-> [e \in {".srt"} |-> 5],
     LowerPrioritySrtHandler |-> [e \in {".srt"} |-> 1],
     CapitalsHandler |-> [e \in {".SRT", ".VTT"} |-> 10]]

HandlerClasses == DOMAIN SUPPORTED_EXTENSIONS

\* the classes discover() finds in the Formats package, in the order it finds them
FormatsPackage == <<"SrtFileHandler", "VttFileHandler">>

\* the extensions a caller looks up
ExtensionsAsked == {".srt", ".SRT", ".vtt", ".ass"}

\* the priority handler_class gives for an extension in lower case
PriorityOf(handler_class, ext) ==
    LET priorities == SUPPORTED_EXTENSIONS[handler_class]
        key == CHOOSE e \in DOMAIN priorities : Lower(e) = ext
    IN priorities[key]

ExtensionsOf(handler_class) == {Lower(e) : e \in DOMAIN SUPPORTED_EXTENSIONS[handler_class]}

EmptyDict == [k \in {} |-> 0]

\* a plausible slip: the last registration wins whatever its priority
register_handler_last(r, handler_class) ==
    [r EXCEPT
        !.handlers = [ext \in DOMAIN r.handlers \cup ExtensionsOf(handler_class) |->
                         IF ext \in ExtensionsOf(handler_class) THEN handler_class
                         ELSE r.handlers[ext]],
        !.priorities = [ext \in DOMAIN r.priorities \cup ExtensionsOf(handler_class) |->
                           IF ext \in ExtensionsOf(handler_class)
                           THEN PriorityOf(handler_class, ext)
                           ELSE r.priorities[ext]]]

\* SubtitleFormatRegistry.register_handler on the registry r
register_handler(r, handler_class) ==
    LET taken == {ext \in ExtensionsOf(handler_class) :
                     \/ ext \notin DOMAIN r.handlers
                     \/ PriorityOf(handler_class, ext) >= r.priorities[ext]}
    IN [r EXCEPT
           !.handlers = [ext \in DOMAIN r.handlers \cup taken |->
                            IF ext \in taken THEN handler_class ELSE r.handlers[ext]],
           !.priorities = [ext \in DOMAIN r.priorities \cup taken |->
                              IF ext \in taken THEN PriorityOf(handler_class, ext)
                              ELSE r.priorities[ext]]]

\* SubtitleFormatRegistry.clear
clear(r) == [handlers |-> EmptyDict, priorities |-> EmptyDict, discovered |-> FALSE]

\* a plausible slip: the registry is emptied but autodiscovery stays on
disable_autodiscovery_clears_only(r) == clear(r)

\* SubtitleFormatRegistry.disable_autodiscovery
disable_autodiscovery(r) == [clear(r) EXCEPT !.discovered = TRUE]

\* the loop of discover over the classes of the Formats package
RECURSIVE RegisterAll(_, _)
RegisterAll(r, classes) ==
    IF classes = <<>> THEN r
    ELSE RegisterAll(register_handler(r, Head(classes)), Tail(classes))

\* SubtitleFormatRegistry.discover
discover(r) == [RegisterAll(r, FormatsPackage) EXCEPT !.discovered = TRUE]

\* SubtitleFormatRegistry._ensure_discovered
_ensure_discovered(r) == IF ~r.discovered THEN discover(r) ELSE r

\* the registry as the class attributes hold it
Registry == [handlers |-> _handlers, priorities |-> _priorities, discovered |-> _discovered]

NoRegistryCall == [op |-> "none", arg |-> "", result |-> "", discovery |-> FALSE]

\* nothing registered, no discover() and no disable_autodiscovery() yet
Cleared(s) == [s EXCEPT !.registered = {}, !.discover_called = FALSE, !.disable_called = FALSE]

RegistryInit ==
    /\ _handlers = EmptyDict
    /\ _priorities = EmptyDict
    /\ _discovered = FALSE
    /\ since = [registered |-> {}, by_hand |-> {}, discover_called |-> FALSE,
                disable_called |-> FALSE, autodiscovery_disabled |-> FALSE]
    /\ regBefore = [handlers |-> EmptyDict, priorities |-> EmptyDict, discovered |-> FALSE]
    /\ regCall = NoRegistryCall

RegistryIdle == RegistryInit

\* the class attributes become those of r, and the call is remembered
RegistryBecomes(r, call) ==
    /\ _handlers' = r.handlers
    /\ _priorities' = r.priorities
    /\ _discovered' = r.discovered
    /\ regBefore' = Registry
    /\ regCall' = call
    /\ UNCHANGED notRegistryVars

\* SubtitleFormatRegistry.register_handler(handler_class), called by hand
CallRegisterHandler(handler_class) ==
    /\ RegistryBecomes(register_handler(Registry, handler_class),
                       [NoRegistryCall EXCEPT !.op = "register_handler", !.arg = handler_class])
    /\ since' = [since EXCEPT !.registered = @ \cup {handler_class},
                              !.by_hand = @ \cup {handler_class}]

\* SubtitleFormatRegistry.get_handler_by_extension(extension)
CallGetHandlerByExtension(extension) ==
    LET r == _ensure_discovered(Registry)
        ext == Lower(extension)
        found == IF ext \in DOMAIN r.handlers THEN r.handlers[ext] ELSE "ValueError"
    IN /\ RegistryBecomes(r, [op |-> "get_handler_by_extension", arg |-> extension,
                              result |-> found, discovery |-> ~_discovered])
       /\ since' = IF ~_discovered
                   THEN [since EXCEPT !.registered = @ \cup {FormatsPackage[k] :
                                                              k \in 1..Len(FormatsPackage)},
                                      !.discover_called = TRUE]
                   ELSE since

\* SubtitleFormatRegistry.clear()
CallClear ==
    /\ RegistryBecomes(clear(Registry), [NoRegistryCall EXCEPT !.op = "clear"])
    /\ since' = Cleared(since)

\* SubtitleFormatRegistry.disable_autodiscovery()
CallDisableAutodiscovery ==
    /\ RegistryBecomes(disable_autodiscovery(Registry),
                       [NoRegistryCall EXCEPT !.op = "disable_autodiscovery"])
    /\ since' = [Cleared(since) EXCEPT !.disable_called = TRUE, !.by_hand = {},
                                       !.autodiscovery_disabled = TRUE]

\* SubtitleFormatRegistry.discover(), called by hand
CallDiscover ==
    /\ RegistryBecomes(discover(Registry), [NoRegistryCall EXCEPT !.op = "discover"])
    /\ since' = [since EXCEPT !.registered = @ \cup {FormatsPackage[k] :
                                                        k \in 1..Len(FormatsPackage)},
                              !.discover_called = TRUE,
                              !.autodiscovery_disabled = FALSE]

RegistryNext ==
    \/ \E handler_class \in HandlerClasses : CallRegisterHandler(handler_class)
    \/ \E extension \in ExtensionsAsked : CallGetHandlerByExtension(extension)
    \/ CallClear
    \/ CallDisableAutodiscovery
    \/ CallDiscover

\* ------------------------------------------------------------------------
\* SubtitleProject.UpdateProjectSettings and the settings of its Subtitles
\* ------------------------------------------------------------------------
\* A settings dict is a function from the keys it holds to their values. Every value
\* is a sequence of strings: a list of names as it is, a string or a flag as a sequence
\* of one string, and None, '' and False as the empty sequence, which is as much as
\* the truth tests of the code tell apart.
None == <<>>

Truthy(value) == value # None

DictGet(d, key) == IF key \in DOMAIN d THEN d[key] ELSE None

DictSet(d, key, value) == [k \in DOMAIN d \cup {key} |-> IF k = key THEN value ELSE d[k]]

DictDel(d, key) == [k \in DOMAIN d \ {key} |-> d[k]]

DictUpdate(d, e) == [k \in DOMAIN d \cup DOMAIN e |-> IF k \in DOMAIN e THEN e[k] ELSE d[k]]

DEFAULT_PROJECT_SETTINGS ==
    [k \in {"provider", "model", "target_language", "prompt", "task_type", "instructions",
            "retry_instructions", "movie_name", "description", "names", "substitutions",
            "substitution_mode", "include_original", "add_right_to_left_markers",
            "instruction_file", "format"} |-> None]

\* ParseNames on a list of names: the empty names are dropped
ParseNames(names_list) == SelectSeq(names_list, LAMBDA name : name # "")

_update_compatibility(d) ==
    LET d1 == IF ~Truthy(DictGet(d, "description")) /\ Truthy(DictGet(d, "synopsis"))
              THEN DictSet(d, "description", DictGet(d, "synopsis")) ELSE d
        d2 == IF Truthy(DictGet(d1, "characters"))
              THEN DictDel(DictSet(d1, "names",
                                   DictGet(d1, "names") \o DictGet(d1, "characters")),
                           "characters")
              ELSE d1
        d3 == IF Truthy(DictGet(d2, "gpt_prompt"))
              THEN DictDel(DictSet(d2, "prompt", d2["gpt_prompt"]), "gpt_prompt") ELSE d2
        d4 == IF Truthy(DictGet(d3, "gpt_model"))
              THEN DictDel(DictSet(d3, "model", d3["gpt_model"]), "gpt_model") ELSE d3
    IN  IF ~Truthy(DictGet(d4, "substitution_mode"))
        THEN DictSet(d4, "substitution_mode",
                     IF Truthy(DictGet(d4, "match_partial_words"))
                     THEN <<"Partial Words">> ELSE <<"Auto">>)
        ELSE d4

\* the settings UpdateProjectSettings hands to Subtitles.UpdateSettings
FilteredSettings(new_settings) ==
    LET known == [k \in DOMAIN new_settings \cap DOMAIN DEFAULT_PROJECT_SETTINGS
                    |-> new_settings[k]]
        parsed == IF "names" \in DOMAIN known
                  THEN DictSet(known, "names", ParseNames(known["names"])) ELSE known
    IN  _update_compatibility(parsed)

\* Subtitles.settings after UpdateProjectSettings(new_settings), NoSubtitles when the
\* project has no subtitles
NoSubtitles == [subtitles |-> FALSE, settings |-> DEFAULT_PROJECT_SETTINGS]

WithSettings(d) == [subtitles |-> TRUE, settings |-> d]

SettingsAfterUpdate(sub, new_settings) ==
    IF ~sub.subtitles THEN sub
    ELSE LET filtered_settings == FilteredSettings(new_settings)
             common_keys == DOMAIN filtered_settings \cap DOMAIN sub.settings
             new_keys == DOMAIN filtered_settings \ DOMAIN sub.settings
         IN  IF (\E key \in common_keys : filtered_settings[key] # sub.settings[key])
                \/ new_keys # {}
             THEN WithSettings(DictUpdate(sub.settings, filtered_settings))
             ELSE sub

\* the settings a caller passes: at most MaxSettingsKeys of these fields
SettingValues ==
    [k \in {"model", "gpt_model", "description", "synopsis", "theme"}
        |-> {<<"a">>, <<"b">>}]
    @@ [k \in {"names", "characters"} |-> {<<"Ann">>, <<"", "Bob">>}]
    @@ [k \in {"substitution_mode"} |-> {<<"Whole Words">>}]
    @@ [k \in {"match_partial_words"} |-> {<<"True">>, None}]

SettingsGiven ==
    UNION {[keys -> UNION {SettingValues[k] : k \in keys}] : keys \in
               {ks \in SUBSET DOMAIN SettingValues : Cardinality(ks) <= MaxSettingsKeys}}

ValidSettings == {d \in SettingsGiven : \A k \in DOMAIN d : d[k] \in SettingValues[k]}

NoSettingsCall == [called |-> FALSE, settings |-> [k \in {} |-> None], before |-> NoSubtitles]

SettingsInit ==
    /\ project_subtitles \in {NoSubtitles, WithSettings(DEFAULT_PROJECT_SETTINGS)}
    /\ settingsCall = NoSettingsCall

SettingsIdle ==
    /\ project_subtitles = NoSubtitles
    /\ settingsCall = NoSettingsCall

\* project.UpdateProjectSettings(new_settings), as InitialiseProject calls it with the
\* settings read from a project file and init_project with the caller's settings
CallUpdateProjectSettings(new_settings) ==
    /\ project_subtitles' = SettingsAfterUpdate(project_subtitles, new_settings)
    /\ settingsCall' = [called |-> TRUE, settings |-> new_settings, before |-> project_subtitles]
    /\ UNCHANGED notSettingsVars

SettingsNext == \E new_settings \in ValidSettings : CallUpdateProjectSettings(new_settings)

\* ------------------------------------------------------------------------
\* OpenAIReasoningClient._convert_to_input_params
\* ------------------------------------------------------------------------
\* An item of the content list is a message dict, a function from the keys it holds to
\* strings, or a plain string; content that is not a list at all is NotAList.
Dict(fields) == [type |-> "dict", fields |-> fields]

Str == [type |-> "str", fields |-> [k \in {} |-> ""]]

NotAList == [is_list |-> FALSE, items |-> <<>>]

List(items) == [is_list |-> TRUE, items |-> items]

AcceptedRoles == {"user", "system", "developer", "assistant"}

EasyInputMessageParam(msg_content, typed_role) ==
    [content |-> msg_content, role |-> typed_role, type |-> "message"]

Converted(input_params) == [error |-> "none", input_params |-> input_params]

TranslationErrorRaised == [error |-> "TranslationError", input_params |-> <<>>]

\* the loop over the messages, from the i-th on, with the items converted so far
RECURSIVE ConvertFrom(_, _, _)
ConvertFrom(items, i, input_params) ==
    IF i > Len(items) THEN Converted(input_params)
    ELSE LET msg == items[i]
             role == IF "role" \in DOMAIN msg.fields THEN msg.fields["role"] ELSE "user"
             msg_content == IF "content" \in DOMAIN msg.fields THEN msg.fields["content"] ELSE ""
         IN  IF msg.type # "dict" THEN TranslationErrorRaised
             ELSE IF role \notin AcceptedRoles THEN TranslationErrorRaised
             ELSE ConvertFrom(items, i + 1,
                              Append(input_params, EasyInputMessageParam(msg_content, role)))

_convert_to_input_params(content) ==
    IF ~content.is_list THEN TranslationErrorRaised
    ELSE IF content.items # <<>> /\ content.items[1].type = "str" THEN TranslationErrorRaised
    ELSE ConvertFrom(content.items, 1, <<>>)

\* the content a caller passes: up to MaxMessages items
MessageDicts ==
    {Dict(f) : f \in UNION {[keys -> {"user", "system", "developer", "assistant", "narrator", "Hello"}]
                               : keys \in SUBSET {"role", "content"}}}

MessageItems ==
    {m \in MessageDicts :
        /\ "content" \in DOMAIN m.fields => m.fields["content"] = "Hello"
        /\ "role" \in DOMAIN m.fields => m.fields["role"] # "Hello"} \cup {Str}

Contents ==
    {NotAList} \cup {List(items) : items \in UNION {[1..n -> MessageItems] : n \in 0..MaxMessages}}

NoConversion == [called |-> FALSE, content |-> NotAList, returned |-> TranslationErrorRaised]

ConvertInit == conversion = NoConversion

ConvertIdle == ConvertInit

Call_convert_to_input_params(content) ==
    /\ conversion' = [called |-> TRUE, content |-> content,
                      returned |-> _convert_to_input_params(content)]
    /\ UNCHANGED notConvertVars

ConvertNext == \E content \in Contents : Call_convert_to_input_params(content)

\* ------------------------------------------------------------------------
\* SubtitleBuilder: lines added scene by scene, batched when a scene is finalized
\* ------------------------------------------------------------------------
BatchSizes == 1..MaxBatchSize

\* the gaps a caller leaves between the end of a line and the start of the next
LineGaps == {1, 2}

NewBuilder(max_batch_size, min_batch_size) ==
    [_scenes |-> <<>>, _current_line_number |-> 0, _scene_counter |-> 0,
     _max_batch_size |-> max_batch_size, _min_batch_size |-> min_batch_size,
     _accumulated_lines |-> <<>>]

\* SubtitleScene.AddBatch on the current scene, the last of _scenes
SceneAddBatch(scene, batch) == [scene EXCEPT !.batches = Append(@, batch)]

RECURSIVE AddBatches(_, _, _)
AddBatches(scene, split_line_groups, i) ==
    IF i > Len(split_line_groups) THEN scene
    ELSE AddBatches(SceneAddBatch(scene, [scene |-> scene.number, number |-> i,
                                          originals |-> split_line_groups[i],
                                          translated |-> <<>>]),
                    split_line_groups, i + 1)

_finalize_current_scene(b) ==
    IF b._scenes = <<>> \/ b._accumulated_lines = <<>> THEN b
    ELSE LET split_line_groups == SplitLines(b._accumulated_lines, b._min_batch_size,
                                             b._max_batch_size)
             n == Len(b._scenes)
         IN  [b EXCEPT !._scenes[n] = AddBatches(b._scenes[n], split_line_groups, 1)]

BuilderAddScene(b) ==
    LET finalized == _finalize_current_scene(b)
    IN  [finalized EXCEPT !._scene_counter = @ + 1,
                          !._scenes = Append(@, [number |-> finalized._scene_counter + 1,
                                                 batches |-> <<>>]),
                          !._accumulated_lines = <<>>]

BuilderAddLine(b, line) ==
    LET with_scene == IF b._scenes = <<>> THEN BuilderAddScene(b) ELSE b
    IN  [with_scene EXCEPT !._accumulated_lines = Append(@, line)]

BuilderConstructLine(b, start) ==
    BuilderAddLine([b EXCEPT !._current_line_number = @ + 1],
                   Line(b._current_line_number + 1, start))

NotBuilt == [done |-> FALSE, scenes |-> <<>>]

BuilderInit ==
    /\ \E max_batch_size \in BatchSizes, min_batch_size \in BatchSizes :
           builder = NewBuilder(max_batch_size, min_batch_size)
    /\ lineClock = 0
    /\ built = NotBuilt

BuilderIdle ==
    /\ builder = NewBuilder(1, 1)
    /\ lineClock = 0
    /\ built = NotBuilt

\* the caller builds once, at the end
CallAddScene ==
    /\ ~built.done
    /\ builder._scene_counter < MaxBuilderScenes
    /\ builder' = BuilderAddScene(builder)
    /\ UNCHANGED <<lineClock, built>>
    /\ UNCHANGED notBuilderVars

CallConstructLine(gap) ==
    /\ ~built.done
    /\ builder._current_line_number < MaxBuilderLines
    /\ builder' = BuilderConstructLine(builder, lineClock + gap)
    /\ lineClock' = lineClock + gap + 1
    /\ built' = built
    /\ UNCHANGED notBuilderVars

CallBuild ==
    /\ ~built.done
    /\ builder' = _finalize_current_scene(builder)
    /\ built' = [done |-> TRUE, scenes |-> builder'._scenes]
    /\ lineClock' = lineClock
    /\ UNCHANGED notBuilderVars

BuilderNext ==
    \/ CallAddScene
    \/ \E gap \in LineGaps : CallConstructLine(gap)
    \/ CallBuild

\* ------------------------------------------------------------------------
\* The command line script gpt-subtrans.py, from its arguments to its exit status
\* ------------------------------------------------------------------------
NotExited == 0 - 1

\* parser.parse_args() ends the process with status 2 when the arguments are invalid
ArgparseErrorStatus == 2

\* the status of an interpreter that ends with an exception nobody caught
UncaughtExceptionStatus == 1

\* an interrupt from the keyboard is no Exception: the interpreter reports it as any
\* uncaught exception or ends by the signal, depending on the platform
KeyboardInterruptStatuses == {1, 130}

CliArgs == [valid : BOOLEAN, preview : BOOLEAN, use_project_file : BOOLEAN]

NewProcess ==
    [pc |-> "parse_args", args |-> [valid |-> FALSE, preview |-> FALSE, use_project_file |-> FALSE],
     project |-> FALSE, translated |-> 0, happened |-> "nothing", logged |-> "nothing",
     project_file_updated |-> FALSE, raised_in |-> "nowhere", exit_status |-> NotExited]

Exited(process, what, status) ==
    [process EXCEPT !.pc = "exited", !.happened = what, !.exit_status = status]

\* except Exception as e: log the status if there is a project, print and raise
ExceptException(process, what) ==
    Exited([process EXCEPT !.logged = IF process.project THEN "has_error" ELSE @,
                           !.raised_in = process.pc],
           what, UncaughtExceptionStatus)

CliInit == cli = NewProcess

CliIdle == CliInit

ParseArgs(args) ==
    /\ cli.pc = "parse_args"
    /\ cli' = IF args.valid THEN [cli EXCEPT !.pc = "CreateOptions", !.args = args]
              ELSE Exited([cli EXCEPT !.args = args], "invalid arguments", ArgparseErrorStatus)
    /\ UNCHANGED notCliVars

CreateOptionsReturns ==
    /\ cli.pc = "CreateOptions"
    /\ cli' = [cli EXCEPT !.pc = "CreateProject"]
    /\ UNCHANGED notCliVars

CreateOptionsRaises ==
    /\ cli.pc = "CreateOptions"
    /\ cli' = ExceptException(cli, "invalid configuration")
    /\ UNCHANGED notCliVars

CreateProjectReturns ==
    /\ cli.pc = "CreateProject"
    /\ cli' = [cli EXCEPT !.pc = "init_translator", !.project = TRUE]
    /\ UNCHANGED notCliVars

CreateProjectRaises ==
    /\ cli.pc = "CreateProject"
    /\ cli' = ExceptException(cli, "invalid configuration")
    /\ UNCHANGED notCliVars

InitTranslatorReturns ==
    /\ cli.pc = "init_translator"
    /\ cli' = [cli EXCEPT !.pc = "TranslateSubtitles"]
    /\ UNCHANGED notCliVars

InitTranslatorRaises ==
    /\ cli.pc = "init_translator"
    /\ cli' = ExceptException(cli, "invalid configuration")
    /\ UNCHANGED notCliVars

\* the translator translates one more batch
CliBatchTranslated ==
    /\ cli.pc = "TranslateSubtitles"
    /\ cli.translated < MaxCliBatches
    /\ cli' = [cli EXCEPT !.translated = @ + 1]
    /\ UNCHANGED notCliVars

\* project.TranslateSubtitles returns after the translator has returned
CliTranslationReturns ==
    /\ cli.pc = "TranslateSubtitles"
    /\ cli' = [cli EXCEPT !.pc = "UpdateProjectFile", !.happened = "translation succeeded"]
    /\ UNCHANGED notCliVars

\* the translator raises TranslationAbortedError: project.TranslateSubtitles logs it
\* and returns
CliTranslationAborted ==
    /\ cli.pc = "TranslateSubtitles"
    /\ cli' = [cli EXCEPT !.pc = "UpdateProjectFile", !.happened = "user abort"]
    /\ UNCHANGED notCliVars

\* the translator raises another exception: project.TranslateSubtitles raises it again
CliTranslationFailed ==
    /\ cli.pc = "TranslateSubtitles"
    /\ cli' = ExceptException(cli, "translation failed")
    /\ UNCHANGED notCliVars

\* the user interrupts the run from the keyboard
CliKeyboardInterrupt ==
    /\ cli.pc = "TranslateSubtitles"
    /\ \E status \in KeyboardInterruptStatuses : cli' = Exited(cli, "user abort", status)
    /\ UNCHANGED notCliVars

\* if project.use_project_file: project.UpdateProjectFile()
CliUpdateProjectFile ==
    /\ cli.pc = "UpdateProjectFile"
    /\ cli' = [cli EXCEPT !.pc = "LogTranslationStatus",
                          !.project_file_updated = cli.args.use_project_file]
    /\ UNCHANGED notCliVars

\* LogTranslationStatus(project, preview), then the script ends
CliLogTranslationStatus ==
    /\ cli.pc = "LogTranslationStatus"
    /\ cli' = [cli EXCEPT !.pc = "exited", !.exit_status = 0,
                          !.logged = IF cli.args.preview THEN "preview" ELSE "status"]
    /\ UNCHANGED notCliVars

CliNext ==
    \/ \E args \in CliArgs : ParseArgs(args)
    \/ CreateOptionsReturns
    \/ CreateOptionsRaises
    \/ CreateProjectReturns
    \/ CreateProjectRaises
    \/ InitTranslatorReturns
    \/ InitTranslatorRaises
    \/ CliBatchTranslated
    \/ CliTranslationReturns
    \/ CliTranslationAborted
    \/ CliTranslationFailed
    \/ CliKeyboardInterrupt
    \/ CliUpdateProjectFile
    \/ CliLogTranslationStatus

\* ------------------------------------------------------------------------
\* TranslateSceneCommand: execute on a worker thread, Abort from the GUI thread
\* ------------------------------------------------------------------------
CommandBatches == 1..MaxCommandBatches

\* Command.Abort is outside the code at hand: base_abort_sets_flag says whether it sets
\* self.aborted itself before it calls on_abort
NewCommand(batch_count, base_abort_sets_flag, stop_on_error) ==
    [pc |-> "queued", batch_count |-> batch_count, base_abort_sets_flag |-> base_abort_sets_flag,
     stop_on_error |-> stop_on_error, translator |-> FALSE, translator_aborted |-> FALSE,
     connected |-> FALSE, aborted |-> FALSE, terminal |-> FALSE, batches_started |-> 0,
     abort_requested |-> FALSE, started_after_request |-> 0, ended |-> "running"]

CommandInit ==
    \E batch_count \in CommandBatches, base_abort_sets_flag \in BOOLEAN, stop_on_error \in BOOLEAN :
        command = NewCommand(batch_count, base_abort_sets_flag, stop_on_error)

CommandIdle == command = NewCommand(1, FALSE, FALSE)

\* if self.translator: self.translator.StopTranslating()
on_abort(c) == IF c.translator THEN [c EXCEPT !.translator_aborted = TRUE] ELSE c

\* the GUI thread aborts the command
CommandAbort ==
    /\ command.pc # "done"
    /\ command' = [on_abort(command) EXCEPT
                      !.abort_requested = TRUE,
                      !.aborted = IF command.base_abort_sets_flag THEN TRUE ELSE @]
    /\ UNCHANGED notCommandVars

\* execute: the checks of the data model, the project and the provider pass
ExecuteChecksPass ==
    /\ command.pc = "queued"
    /\ command' = [command EXCEPT !.pc = "checked"]
    /\ UNCHANGED notCommandVars

\* execute: one of the checks raises CommandError
ExecuteRaisesCommandError ==
    /\ command.pc = "queued"
    /\ command' = [command EXCEPT !.pc = "done", !.ended = "CommandError"]
    /\ UNCHANGED notCommandVars

\* self.translator = SubtitleTranslator(...), and the subscription to batch_translated
ExecuteCreatesTranslator ==
    /\ command.pc = "checked"
    /\ command' = [command EXCEPT !.pc = "TranslateScene", !.translator = TRUE,
                                  !.connected = TRUE]
    /\ UNCHANGED notCommandVars

\* the translator starts on the next batch of the scene unless it was stopped
SceneTranslatorStartsBatch ==
    /\ command.pc = "TranslateScene"
    /\ ~command.translator_aborted
    /\ command.batches_started < command.batch_count
    /\ command' = [command EXCEPT
                      !.pc = "in_batch",
                      !.batches_started = @ + 1,
                      !.started_after_request = IF command.abort_requested THEN @ + 1 ELSE @]
    /\ UNCHANGED notCommandVars

SceneTranslatorFinishesBatch ==
    /\ command.pc = "in_batch"
    /\ command' = [command EXCEPT !.pc = "TranslateScene"]
    /\ UNCHANGED notCommandVars

\* translator.TranslateScene returns: after the last batch, or because it was stopped
SceneTranslatorReturns ==
    /\ command.pc = "TranslateScene"
    /\ command.translator_aborted \/ command.batches_started = command.batch_count
    /\ command' = [command EXCEPT
                      !.pc = "finally",
                      !.ended = "returned",
                      !.aborted = IF command.translator_aborted THEN TRUE ELSE @,
                      !.terminal = IF command.translator_aborted THEN TRUE ELSE @]
    /\ UNCHANGED notCommandVars

\* translator.TranslateScene raises TranslationAbortedError once it was stopped
SceneTranslatorRaisesAborted ==
    /\ command.pc \in {"TranslateScene", "in_batch"}
    /\ command.translator_aborted
    /\ command' = [command EXCEPT !.pc = "finally", !.ended = "TranslationAbortedError",
                                  !.aborted = TRUE, !.terminal = TRUE]
    /\ UNCHANGED notCommandVars

\* translator.TranslateScene raises TranslationImpossibleError or another exception
SceneTranslatorRaisesError(impossible) ==
    /\ command.pc = "in_batch"
    /\ command' = [command EXCEPT
                      !.pc = "finally",
                      !.ended = IF impossible THEN "TranslationImpossibleError" ELSE "Exception",
                      !.terminal = IF impossible \/ command.stop_on_error THEN TRUE ELSE @]
    /\ UNCHANGED notCommandVars

\* the subscription is removed and execute returns True
ExecuteReturns ==
    /\ command.pc = "finally"
    /\ command' = [command EXCEPT !.pc = "done", !.connected = FALSE]
    /\ UNCHANGED notCommandVars

CommandNext ==
    \/ CommandAbort
    \/ ExecuteChecksPass
    \/ ExecuteRaisesCommandError
    \/ ExecuteCreatesTranslator
    \/ SceneTranslatorStartsBatch
    \/ SceneTranslatorFinishesBatch
    \/ SceneTranslatorReturns
    \/ SceneTranslatorRaisesAborted
    \/ \E impossible \in BOOLEAN : SceneTranslatorRaisesError(impossible)
    \/ ExecuteReturns

\* ------------------------------------------------------------------------
\* Threads that take SubtitleProject.lock and Subtitles.lock one inside the other
\* ------------------------------------------------------------------------
\* the Subtitles objects a project has referred to: ReadProjectFile makes a new one
SubtitlesObjects == 1..MaxSubtitlesObjects

Resting == [op |-> "none", pc |-> "idle", editing |-> 0]

\* whether Subtitles.SaveOriginal and Subtitles.SaveTranslation, which are outside the
\* code at hand, take Subtitles.lock themselves is SaveTakesLock
OrderInit ==
    /\ project_subtitles_id = 1
    /\ subtitles_locks = [s \in SubtitlesObjects |-> Unlocked]
    /\ held_project_lock = Unlocked
    /\ doing = [t \in Threads |-> Resting]
    /\ SaveTakesLock \in BOOLEAN

OrderIdle ==
    /\ project_subtitles_id = 1
    /\ subtitles_locks = [s \in SubtitlesObjects |-> Unlocked]
    /\ held_project_lock = Unlocked
    /\ doing = [t \in Threads |-> Resting]
    /\ SaveTakesLock = FALSE

\* the lock a thread asks for in its next step: "project", a Subtitles object, or
\* "none" when the step takes no lock
Wanted(t) ==
    LET d == doing[t]
    IN  CASE d.pc \in {"SaveOriginal", "ReadProjectFile", "SaveProject"} -> [kind |-> "project", of |-> 0]
          [] d.pc \in {"Subtitles.SaveOriginal", "Subtitles.SaveTranslation"} /\ SaveTakesLock
                -> [kind |-> "subtitles", of |-> project_subtitles_id]
          [] d.pc = "Sanitise" -> [kind |-> "subtitles", of |-> project_subtitles_id]
          [] OTHER -> [kind |-> "none", of |-> 0]

\* BatchSubtitlesCommand.execute: `with project.GetEditor() as editor:`
BatchCommandEntersScope(t) ==
    /\ doing[t] = Resting
    /\ CanAcquire(subtitles_locks[project_subtitles_id], t)
    /\ subtitles_locks' = [subtitles_locks EXCEPT ![project_subtitles_id] = Acquired(@, t)]
    /\ doing' = [doing EXCEPT ![t] = [op |-> "BatchSubtitlesCommand", pc |-> "scope",
                                      editing |-> project_subtitles_id]]
    /\ UNCHANGED <<project_subtitles_id, held_project_lock, SaveTakesLock, notOrderVars>>

\* the preprocessed subtitles changed and are to be saved: project.SaveOriginal is called
BatchCommandCallsSaveOriginal(t) ==
    /\ doing[t].pc = "scope"
    /\ doing' = [doing EXCEPT ![t].pc = "SaveOriginal"]
    /\ UNCHANGED <<project_subtitles_id, subtitles_locks, held_project_lock, SaveTakesLock,
                   notOrderVars>>

\* SubtitleProject.SaveOriginal: `with self.lock:`
SaveOriginalLocks(t) ==
    /\ doing[t].pc = "SaveOriginal"
    /\ CanAcquire(held_project_lock, t)
    /\ held_project_lock' = Acquired(held_project_lock, t)
    /\ doing' = [doing EXCEPT ![t].pc = "Subtitles.SaveOriginal"]
    /\ UNCHANGED <<project_subtitles_id, subtitles_locks, SaveTakesLock, notOrderVars>>

\* self.subtitles.SaveOriginal(outputpath), and the end of the `with self.lock`
SaveOriginalReturns(t) ==
    /\ doing[t].pc = "Subtitles.SaveOriginal"
    /\ SaveTakesLock => CanAcquire(subtitles_locks[project_subtitles_id], t)
    /\ held_project_lock' = Released(held_project_lock)
    /\ doing' = [doing EXCEPT ![t].pc = "AutoBatch"]
    /\ UNCHANGED <<project_subtitles_id, subtitles_locks, SaveTakesLock, notOrderVars>>

\* editor.AutoBatch(batcher) and the end of the editor scope
BatchCommandLeavesScope(t) ==
    /\ doing[t].pc \in {"scope", "AutoBatch"}
    /\ subtitles_locks' = [subtitles_locks EXCEPT ![doing[t].editing] = Released(@)]
    /\ doing' = [doing EXCEPT ![t] = Resting]
    /\ UNCHANGED <<project_subtitles_id, held_project_lock, SaveTakesLock, notOrderVars>>

\* SubtitleProject.ReadProjectFile is called
ReadProjectFileCalled(t) ==
    /\ doing[t] = Resting
    /\ project_subtitles_id + Cardinality({u \in Threads : doing[u].pc = "ReadProjectFile"})
           < MaxSubtitlesObjects
    /\ doing' = [doing EXCEPT ![t] = [op |-> "ReadProjectFile", pc |-> "ReadProjectFile",
                                      editing |-> 0]]
    /\ UNCHANGED <<project_subtitles_id, subtitles_locks, held_project_lock, SaveTakesLock,
                   notOrderVars>>

\* ReadProjectFile: `with self.lock:` and self.subtitles = json.load(...)
ReadProjectFileLoads(t) ==
    /\ doing[t].pc = "ReadProjectFile"
    /\ CanAcquire(held_project_lock, t)
    /\ held_project_lock' = Acquired(held_project_lock, t)
    /\ project_subtitles_id' = project_subtitles_id + 1
    /\ doing' = [doing EXCEPT ![t].pc = "Sanitise"]
    /\ UNCHANGED <<subtitles_locks, SaveTakesLock, notOrderVars>>

\* ReadProjectFile: `with SubtitleEditor(self.subtitles) as editor:` is entered
ReadProjectFileEntersScope(t) ==
    /\ doing[t].pc = "Sanitise"
    /\ CanAcquire(subtitles_locks[project_subtitles_id], t)
    /\ subtitles_locks' = [subtitles_locks EXCEPT ![project_subtitles_id] = Acquired(@, t)]
    /\ doing' = [doing EXCEPT ![t].pc = "sanitised", ![t].editing = project_subtitles_id]
    /\ UNCHANGED <<project_subtitles_id, held_project_lock, SaveTakesLock, notOrderVars>>

\* ReadProjectFile: editor.Sanitise(), the scope and the `with self.lock` end
ReadProjectFileReturns(t) ==
    /\ doing[t].pc = "sanitised"
    /\ subtitles_locks' = [subtitles_locks EXCEPT ![doing[t].editing] = Released(@)]
    /\ held_project_lock' = Released(held_project_lock)
    /\ doing' = [doing EXCEPT ![t] = Resting]
    /\ UNCHANGED <<project_subtitles_id, SaveTakesLock, notOrderVars>>

\* SubtitleProject.SaveProject is called
SaveProjectCalled(t) ==
    /\ doing[t] = Resting
    /\ doing' = [doing EXCEPT ![t] = [op |-> "SaveProject", pc |-> "SaveProject", editing |-> 0]]
    /\ UNCHANGED <<project_subtitles_id, subtitles_locks, held_project_lock, SaveTakesLock,
                   notOrderVars>>

\* SaveProject: `with self.lock:`, and again in SaveTranslation
SaveProjectLocks(t) ==
    /\ doing[t].pc = "SaveProject"
    /\ CanAcquire(held_project_lock, t)
    /\ held_project_lock' = Acquired(held_project_lock, t)
    /\ doing' = [doing EXCEPT ![t].pc = "Subtitles.SaveTranslation"]
    /\ UNCHANGED <<project_subtitles_id, subtitles_locks, SaveTakesLock, notOrderVars>>

\* self.subtitles.SaveTranslation(outputpath), and the end of SaveProject
SaveProjectReturns(t) ==
    /\ doing[t].pc = "Subtitles.SaveTranslation"
    /\ SaveTakesLock => CanAcquire(subtitles_locks[project_subtitles_id], t)
    /\ held_project_lock' = Released(held_project_lock)
    /\ doing' = [doing EXCEPT ![t] = Resting]
    /\ UNCHANGED <<project_subtitles_id, subtitles_locks, SaveTakesLock, notOrderVars>>

OrderNext ==
    \/ \E t \in Threads : BatchCommandEntersScope(t)
    \/ \E t \in Threads : BatchCommandCallsSaveOriginal(t)
    \/ \E t \in Threads : SaveOriginalLocks(t)
    \/ \E t \in Threads : SaveOriginalReturns(t)
    \/ \E t \in Threads : BatchCommandLeavesScope(t)
    \/ \E t \in Threads : ReadProjectFileCalled(t)
    \/ \E t \in Threads : ReadProjectFileLoads(t)
    \/ \E t \in Threads : ReadProjectFileEntersScope(t)
    \/ \E t \in Threads : ReadProjectFileReturns(t)
    \/ \E t \in Threads : SaveProjectCalled(t)
    \/ \E t \in Threads : SaveProjectLocks(t)
    \/ \E t \in Threads : SaveProjectReturns(t)

\* ------------------------------------------------------------------------
\* Specifications
\* ------------------------------------------------------------------------
\* each specification runs one component and leaves the others in their idle state
InitLock ==
    /\ LockInit
    /\ EditorIdle
    /\ EventsIdle
    /\ CustomIdle
    /\ StreamIdle
    /\ SaveIdle
    /\ AutosaveIdle
    /\ AccessIdle
    /\ CallsIdle
    /\ RegistryIdle
    /\ SettingsIdle
    /\ ConvertIdle
    /\ BuilderIdle
    /\ CliIdle
    /\ CommandIdle
    /\ OrderIdle

SpecLock == InitLock /\ [][LockNext]_vars

InitEditor ==
    /\ EditorInit
    /\ LockInit
    /\ EventsIdle
    /\ CustomIdle
    /\ StreamIdle
    /\ SaveIdle
    /\ AutosaveIdle
    /\ AccessIdle
    /\ CallsIdle
    /\ RegistryIdle
    /\ SettingsIdle
    /\ ConvertIdle
    /\ BuilderIdle
    /\ CliIdle
    /\ CommandIdle
    /\ OrderIdle

SpecEditor == InitEditor /\ [][EditorNext]_vars

InitEvents ==
    /\ EventsInit
    /\ LockInit
    /\ EditorIdle
    /\ CustomIdle
    /\ StreamIdle
    /\ SaveIdle
    /\ AutosaveIdle
    /\ AccessIdle
    /\ CallsIdle
    /\ RegistryIdle
    /\ SettingsIdle
    /\ ConvertIdle
    /\ BuilderIdle
    /\ CliIdle
    /\ CommandIdle
    /\ OrderIdle

SpecEvents == InitEvents /\ [][EventsNext]_vars

InitCustom ==
    /\ CustomInit
    /\ LockInit
    /\ EditorIdle
    /\ EventsIdle
    /\ StreamIdle
    /\ SaveIdle
    /\ AutosaveIdle
    /\ AccessIdle
    /\ CallsIdle
    /\ RegistryIdle
    /\ SettingsIdle
    /\ ConvertIdle
    /\ BuilderIdle
    /\ CliIdle
    /\ CommandIdle
    /\ OrderIdle

SpecCustom == InitCustom /\ [][CustomNext]_vars

InitStream ==
    /\ StreamInit
    /\ LockInit
    /\ EditorIdle
    /\ EventsIdle
    /\ CustomIdle
    /\ SaveIdle
    /\ AutosaveIdle
    /\ AccessIdle
    /\ CallsIdle
    /\ RegistryIdle
    /\ SettingsIdle
    /\ ConvertIdle
    /\ BuilderIdle
    /\ CliIdle
    /\ CommandIdle
    /\ OrderIdle

SpecStream == InitStream /\ [][StreamNext]_vars

InitSave ==
    /\ SaveInit
    /\ LockInit
    /\ EditorIdle
    /\ EventsIdle
    /\ CustomIdle
    /\ StreamIdle
    /\ AutosaveIdle
    /\ AccessIdle
    /\ CallsIdle
    /\ RegistryIdle
    /\ SettingsIdle
    /\ ConvertIdle
    /\ BuilderIdle
    /\ CliIdle
    /\ CommandIdle
    /\ OrderIdle

SpecSave == InitSave /\ [][SaveNext]_vars

InitAutosave ==
    /\ AutosaveInit
    /\ LockInit
    /\ EditorIdle
    /\ EventsIdle
    /\ CustomIdle
    /\ StreamIdle
    /\ SaveIdle
    /\ AccessIdle
    /\ CallsIdle
    /\ RegistryIdle
    /\ SettingsIdle
    /\ ConvertIdle
    /\ BuilderIdle
    /\ CliIdle
    /\ CommandIdle
    /\ OrderIdle

SpecAutosave == InitAutosave /\ [][AutosaveNext]_vars

InitAccess ==
    /\ AccessInit
    /\ LockInit
    /\ EditorIdle
    /\ EventsIdle
    /\ CustomIdle
    /\ StreamIdle
    /\ SaveIdle
    /\ AutosaveIdle
    /\ CallsIdle
    /\ RegistryIdle
    /\ SettingsIdle
    /\ ConvertIdle
    /\ BuilderIdle
    /\ CliIdle
    /\ CommandIdle
    /\ OrderIdle

SpecAccess == InitAccess /\ [][AccessNext]_vars

InitCalls ==
    /\ CallsInit
    /\ LockInit
    /\ EditorIdle
    /\ EventsIdle
    /\ CustomIdle
    /\ StreamIdle
    /\ SaveIdle
    /\ AutosaveIdle
    /\ AccessIdle
    /\ RegistryIdle
    /\ SettingsIdle
    /\ ConvertIdle
    /\ BuilderIdle
    /\ CliIdle
    /\ CommandIdle
    /\ OrderIdle

SpecCalls == InitCalls /\ [][CallsNext]_vars

InitRegistry ==
    /\ RegistryInit
    /\ LockInit
    /\ EditorIdle
    /\ EventsIdle
    /\ CustomIdle
    /\ StreamIdle
    /\ SaveIdle
    /\ AutosaveIdle
    /\ AccessIdle
    /\ CallsIdle
    /\ SettingsIdle
    /\ ConvertIdle
    /\ BuilderIdle
    /\ CliIdle
    /\ CommandIdle
    /\ OrderIdle

SpecRegistry == InitRegistry /\ [][RegistryNext]_vars

InitSettings ==
    /\ SettingsInit
    /\ LockInit
    /\ EditorIdle
    /\ EventsIdle
    /\ CustomIdle
    /\ StreamIdle
    /\ SaveIdle
    /\ AutosaveIdle
    /\ AccessIdle
    /\ CallsIdle
    /\ RegistryIdle
    /\ ConvertIdle
    /\ BuilderIdle
    /\ CliIdle
    /\ CommandIdle
    /\ OrderIdle

SpecSettings == InitSettings /\ [][SettingsNext]_vars

InitConvert ==
    /\ ConvertInit
    /\ LockInit
    /\ EditorIdle
    /\ EventsIdle
    /\ CustomIdle
    /\ StreamIdle
    /\ SaveIdle
    /\ AutosaveIdle
    /\ AccessIdle
    /\ CallsIdle
    /\ RegistryIdle
    /\ SettingsIdle
    /\ BuilderIdle
    /\ CliIdle
    /\ CommandIdle
    /\ OrderIdle

SpecConvert == InitConvert /\ [][ConvertNext]_vars

InitBuilder ==
    /\ BuilderInit
    /\ LockInit
    /\ EditorIdle
    /\ EventsIdle
    /\ CustomIdle
    /\ StreamIdle
    /\ SaveIdle
    /\ AutosaveIdle
    /\ AccessIdle
    /\ CallsIdle
    /\ RegistryIdle
    /\ SettingsIdle
    /\ ConvertIdle
    /\ CliIdle
    /\ CommandIdle
    /\ OrderIdle

SpecBuilder == InitBuilder /\ [][BuilderNext]_vars

InitCli ==
    /\ CliInit
    /\ LockInit
    /\ EditorIdle
    /\ EventsIdle
    /\ CustomIdle
    /\ StreamIdle
    /\ SaveIdle
    /\ AutosaveIdle
    /\ AccessIdle
    /\ CallsIdle
    /\ RegistryIdle
    /\ SettingsIdle
    /\ ConvertIdle
    /\ BuilderIdle
    /\ CommandIdle
    /\ OrderIdle

SpecCli == InitCli /\ [][CliNext]_vars

InitCommand ==
    /\ CommandInit
    /\ LockInit
    /\ EditorIdle
    /\ EventsIdle
    /\ CustomIdle
    /\ StreamIdle
    /\ SaveIdle
    /\ AutosaveIdle
    /\ AccessIdle
    /\ CallsIdle
    /\ RegistryIdle
    /\ SettingsIdle
    /\ ConvertIdle
    /\ BuilderIdle
    /\ CliIdle
    /\ OrderIdle

SpecCommand == InitCommand /\ [][CommandNext]_vars

InitOrder ==
    /\ OrderInit
    /\ LockInit
    /\ EditorIdle
    /\ EventsIdle
    /\ CustomIdle
    /\ StreamIdle
    /\ SaveIdle
    /\ AutosaveIdle
    /\ AccessIdle
    /\ CallsIdle
    /\ RegistryIdle
    /\ SettingsIdle
    /\ ConvertIdle
    /\ BuilderIdle
    /\ CliIdle
    /\ CommandIdle

SpecOrder == InitOrder /\ [][OrderNext]_vars

\* ------------------------------------------------------------------------
\* Numbering and validity of the Subtitles tree
\* ------------------------------------------------------------------------
SequentialNumbers(ss) ==
    \A i \in 1..Len(ss) :
        /\ ss[i].number = i
        /\ \A j \in 1..Len(ss[i].batches) :
              /\ ss[i].batches[j].number = j
              /\ ss[i].batches[j].scene = i

NoEmptyBatchOrScene(ss) ==
    \A i \in 1..Len(ss) :
        /\ ss[i].batches # <<>>
        /\ \A j \in 1..Len(ss[i].batches) : ss[i].batches[j].originals # <<>>

LinesValidAndMatched(ss) ==
    \A i \in 1..Len(ss) : \A j \in 1..Len(ss[i].batches) :
        LET batch == ss[i].batches[j]
        IN /\ \A k \in 1..Len(batch.originals) :
                batch.originals[k].number >= 1 /\ batch.originals[k].start # NoStart
           /\ \A k \in 1..Len(batch.translated) :
                /\ batch.translated[k].number >= 1
                /\ batch.translated[k].start # NoStart
                /\ batch.translated[k].number \in LineNumbersOf(batch.originals)


\* ------------------------------------------------------------------------
\* C1: every open SubtitleEditor scope of a thread holds exactly one
\* acquisition of Subtitles.lock and every exit, normal or by an exception,
\* gives it back: a thread holds as many acquisitions as it has open scopes,
\* an editor's flag is set exactly while its scope is open, a thread without
\* an open scope does not own the lock, and when no scope is open the lock is
\* free for any thread.
\* ------------------------------------------------------------------------
C1_ScopeExitReleasesLock ==
    /\ \A t \in Threads : HeldBy(t) = Len(scopes[t])
    /\ \A e \in Editors :
         lock_acquired[e] <=> \E t \in Threads : \E i \in 1..Len(scopes[t]) : scopes[t][i] = e
    /\ \A t \in Threads : scopes[t] = <<>> => lockOwner # t
    /\ (\A t \in Threads : scopes[t] = <<>>) => (lockOwner = NoThread /\ lockCount = 0)

\* a thread has left its scopes through an exception, the lock is free and
\* another thread blocked in __enter__ can now take it
C1_Witness ==
    \E t \in Threads, u \in Threads :
        /\ t # u
        /\ lastExit[t] = "exception"
        /\ scopes[t] = <<>>
        /\ waiting[u] # NoEditor
        /\ lockOwner = NoThread
        /\ ENABLED EnterScope(u)

\* ------------------------------------------------------------------------
\* C2 (as stated): after every editor mutation the scenes are numbered 1..n
\* in list order, the batches of every scene 1..m, and every batch's scene
\* field is the number of its scene. AddScene appends the scene with the
\* numbers its caller gave it, so this does not hold.
\* ------------------------------------------------------------------------
C2_SequentialAfterAnyMutation == SequentialNumbers(scenes)

\* C2 (amended): after MergeScenes, SplitScene or Sanitise has returned, the
\* three mutations that end with RenumberScenes, the scenes are numbered 1..n
\* in list order, the batches of every scene 1..m, and every batch's scene
\* field is the number of its scene, whatever the numbers were before.
RenumberingOps == {"MergeScenes", "SplitScene", "Sanitise"}

C2_SequentialAfterRenumberingMutation ==
    (lastOp.op \in RenumberingOps /\ lastOp.ok) => SequentialNumbers(scenes)

\* a split has just renumbered a scene that was added out of sequence: the
\* scene numbered 2 at position 1 is now scenes 1 and 2
C2_Witness ==
    /\ lastOp = [op |-> "SplitScene", ok |-> TRUE]
    /\ Len(scenes) = 2
    /\ scenes[2].batches # <<>>
    /\ scenes[2].batches[1].originals # <<>>
    /\ scenes[2].batches[1].originals[1].number = 0

\* ------------------------------------------------------------------------
\* C3: after Sanitise no scene is left without batches and no batch without
\* original lines, also when all lines of a batch were invalid before.
\* ------------------------------------------------------------------------
C3_SanitiseLeavesNoEmptyBatchOrScene ==
    (lastOp.op = "Sanitise") => NoEmptyBatchOrScene(scenes)

\* ------------------------------------------------------------------------
\* C4: after Sanitise every scene's number is its position, every batch's
\* number is its position in its scene and its scene field is that scene's
\* number, every original and translated line left has a number >= 1 and a
\* start, and every translated line left carries the number of an original
\* line of the same batch.
\* ------------------------------------------------------------------------
C4_SanitiseRestoresInvariants ==
    (lastOp.op = "Sanitise") => (SequentialNumbers(scenes) /\ LinesValidAndMatched(scenes))

\* Sanitise has run on a batch that held an original without start and a
\* translation of it: the valid original is the only line left
C4_Witness ==
    /\ lastOp.op = "Sanitise"
    /\ \E i \in 1..Len(scenes) : \E j \in 1..Len(scenes[i].batches) :
          /\ scenes[i].batches[j].originals = <<Line(3, 6)>>
          /\ scenes[i].batches[j].translated = <<>>

C6_Persistent5xxTakesAllRetries ==
    ccServer = "always5xx" =>
        /\ ccState \in {"sending", "backoff", "TranslationImpossibleError"}
        /\ Len(ccStatuses) <= ccSettings.max_retries + 1
        /\ ccState = "TranslationImpossibleError" <=> Len(ccStatuses) = ccSettings.max_retries + 1
        /\ ccState = "sending" => Len(ccStatuses) = ccRetry
        /\ ccState = "backoff" => Len(ccStatuses) = ccRetry + 1
        /\ ccCalls = IF ccSettings.stream_responses
                     THEN [post |-> 0, stream |-> Len(ccStatuses)]
                     ELSE [post |-> Len(ccStatuses), stream |-> 0]

\* a streaming client with max_retries = 2 has given up after three 5xx answers
C6_Witness ==
    /\ ccServer = "always5xx"
    /\ ccSettings.max_retries = 2
    /\ ccSettings.stream_responses
    /\ ccState = "TranslationImpossibleError"
    /\ ccCalls = [post |-> 0, stream |-> 3]

\* ------------------------------------------------------------------------
\* C7: a 4xx answer, 429 included, is always the last answer of the request:
\* the request ends in ClientResponseError at once and is not sent again,
\* streaming or not; a server that answers 4xx to everything is therefore
\* asked exactly once.
\* ------------------------------------------------------------------------
C7_ClientErrorIsNeverRetried ==
    /\ \A i \in 1..Len(ccStatuses) :
          is_client_error(ccStatuses[i]) => (i = Len(ccStatuses) /\ ccState = "ClientResponseError")
    /\ ccState = "ClientResponseError" =>
          (ccStatuses # <<>> /\ is_client_error(ccStatuses[Len(ccStatuses)]))
    /\ ccServer = "always4xx" => Len(ccStatuses) <= 1
    /\ (ccServer = "always4xx" /\ ccState # "sending") =>
          /\ ccState = "ClientResponseError"
          /\ ccCalls = IF ccSettings.stream_responses
                       THEN [post |-> 0, stream |-> 1]
                       ELSE [post |-> 1, stream |-> 0]

\* a streaming client with retries left has been answered 429 after a 5xx
\* answer and one retry, and has raised ClientResponseError
C7_Witness ==
    /\ ccSettings.max_retries = 2
    /\ ccSettings.stream_responses
    /\ ccStatuses = <<502, 429>>
    /\ ccState = "ClientResponseError"

\* the delta events among the first n events of the stream, with their index
DeltasBefore(n) ==
    LET events == StreamEvents(server)
        at == {i \in 1..n : events[i].type = "response.output_text.delta"}
        RECURSIVE InOrder(_)
        InOrder(k) ==
            IF k > n THEN <<>>
            ELSE IF k \in at THEN <<[index |-> k, delta |-> events[k].delta]>> \o InOrder(k + 1)
            ELSE InOrder(k + 1)
    IN InOrder(1)

\* ------------------------------------------------------------------------
\* C8: when a streaming request has reached its terminal event, the deltas
\* pushed to the request are exactly the delta events received before that
\* event, each once and in arrival order, none after it, and once the send
\* has returned the response the concatenation of the pushed deltas is the
\* text of that response.
\* ------------------------------------------------------------------------
C8_PushedDeltasAreTheFinalText ==
    (request_is_streaming /\ outcome = "response") =>
        /\ pushed = DeltasBefore(evIdx - 1)
        /\ (pc = "done" /\ result = "response") => PushedText = JoinParts(OpenAIResponse)

\* the part of C8 that the loop does keep: the pushed deltas are the delta
\* events before the terminal event, once each and in order
PushedDeltasAreThoseReceived ==
    (request_is_streaming /\ outcome = "response") => pushed = DeltasBefore(evIdx - 1)

\* ------------------------------------------------------------------------
\* C9: the loop looks at the abort flag for every event before it handles
\* it: no delta of an event taken from the stream after abort was set is
\* pushed (the last delta pushed is at most the one whose check had passed
\* when abort was set), at most one more event is taken from the stream
\* after abort was set, and the send does not return a response.
\* ------------------------------------------------------------------------
C9_AbortStopsStreamAtNextEvent ==
    (request_is_streaming /\ aborted) =>
        /\ \A i \in 1..Len(pushed) : pushed[i].index <= fetchedAtAbort
        /\ evIdx <= fetchedAtAbort + 1
        /\ pc = "done" => result # "response"

\* abort was set while deltas were arriving: the next event, a delta, was
\* taken and not pushed, and the send has returned None
C9_Witness ==
    /\ request_is_streaming
    /\ aborted
    /\ abortWhen = "loop"
    /\ pushed # <<>>
    /\ evIdx = fetchedAtAbort + 1
    /\ StreamEvents(server)[evIdx].type = "response.output_text.delta"
    /\ pushed[Len(pushed)].index < evIdx
    /\ pc = "done"
    /\ result = "None"

\* ------------------------------------------------------------------------
\* C10: an abort that reaches _abort while a streaming request is between
\* the creation of its stream and the end of its event loop does not close
\* the transport, an abort closes it only for a request that is not
\* streamed, and the streaming flag is false once the streaming call has
\* returned or raised.
\* ------------------------------------------------------------------------
StreamingMoments == {"creating", "created", "loop", "fetched", "checked", "finally"}

C10_AbortNeverClosesStreamingTransport ==
    /\ (request_is_streaming /\ hookWhen \in StreamingMoments) => ~transportClosed
    /\ pc \in {"send", "done"} => ~is_streaming

\* ------------------------------------------------------------------------
\* C11: when the translation run is aborted, TranslateSubtitles returns without
\* raising, and the partial translation has been saved if write_translation
\* is set and at least one line is translated
\* ------------------------------------------------------------------------
C11_AbortSavesPartialTranslation ==
    (pjCall.method = "TranslateSubtitles" /\ pjCall.error = "aborted") =>
        /\ pjCall.state = "returned"
        /\ (project.write_translation /\ project.any_translated) => project.translation_written

C13_SaveProjectWritesTranslation ==
    (pjCall.method = "SaveProject" /\ pjCall.state = "returned") =>
        /\ project.any_translated => project.translation_written
        /\ project.use_project_file => project.project_written
        /\ ~project.needs_writing

\* ------------------------------------------------------------------------
\* C14: with autosave enabled, a burst of changes that set needs_writing is
\* followed by one autosave, performed 20 seconds after the last change of the
\* burst: every change (re)schedules the save, so that while no command is
\* queued or being completed the timer runs out 20 seconds after the last change
\* ------------------------------------------------------------------------
C14_AutosaveTwentySecondsAfterLastChange ==
    /\ lastSaveAge \in {NoSave, AutosaveDelay}
    /\ (/\ datamodel.autosave_enabled /\ datamodel.needs_writing
        /\ command_queue = <<>> /\ completed = 0 /\ _autosave_timer # 0) =>
           _autosave_timer + sinceChange = AutosaveDelay

\* ------------------------------------------------------------------------
\* C15: a thread that changes the Subtitles through SubtitleProject holds
\* Subtitles.lock while it does, so the change never happens while another
\* thread is inside a SubtitleEditor scope
\* ------------------------------------------------------------------------
C15_ProjectMutatesUnderSubtitlesLock ==
    /\ \A t \in Threads : where[t] \in ProjectMutations => subtitles_lock.owner = t
    /\ \A t, u \in Threads : ~(where[t] \in ProjectMutations /\ where[u] = "scope")

\* ------------------------------------------------------------------------
\* C16: SplitScene(s, b) of an existing scene s and an existing batch b of s
\* puts a new scene right after s which holds the batches of s numbered >= b
\* in their order, leaves the batches numbered < b in s, leaves the content of
\* the other scenes as it was, and renumbers scenes and batches sequentially
\* ------------------------------------------------------------------------
\* what a batch holds, whatever its numbers
BatchContents(batches) ==
    [j \in 1..Len(batches) |->
        [originals |-> batches[j].originals, translated |-> batches[j].translated]]

SceneExists(ss, s) == \E i \in 1..Len(ss) : ss[i].number = s

BatchExists(ss, s, b) ==
    \E i \in 1..Len(ss) :
        /\ ss[i].number = s
        /\ \E j \in 1..Len(ss[i].batches) : ss[i].batches[j].number = b

C16_SplitSceneMovesBatchesFromB ==
    (called.op = "SplitScene" /\ BatchExists(given, called.scene_number, called.batch_number)) =>
        /\ left.error = "none"
        /\ LET s == called.scene_number
               b == called.batch_number
               i == CHOOSE k \in 1..Len(given) : given[k].number = s
               from_b == SelectSeq(given[i].batches, LAMBDA batch : batch.number >= b)
               before_b == SelectSeq(given[i].batches, LAMBDA batch : batch.number < b)
           IN /\ Len(left.scenes) = Len(given) + 1
              /\ BatchContents(left.scenes[i].batches) = BatchContents(before_b)
              /\ BatchContents(left.scenes[i + 1].batches) = BatchContents(from_b)
              /\ \A k \in 1..Len(given) :
                    k # i => BatchContents(left.scenes[IF k < i THEN k ELSE k + 1].batches)
                                 = BatchContents(given[k].batches)
              /\ SequentialNumbers(left.scenes)

\* a scene between two others is split at its second batch
C16_Witness ==
    /\ called.op = "SplitScene"
    /\ called.scene_number = 2
    /\ called.batch_number = 2
    /\ Len(given) = 3
    /\ Len(given[2].batches) = 2
    /\ Len(given[3].batches) = 1
    /\ Len(left.scenes) = 4
    /\ Len(left.scenes[2].batches) = 1
    /\ Len(left.scenes[3].batches) = 1

\* ------------------------------------------------------------------------
\* C17: MergeScenes raises for every list of scene numbers that is not
\* strictly sequential (each number one more than the one before it), and for
\* an empty list
\* ------------------------------------------------------------------------
StrictlySequential(nums) == \A k \in 2..Len(nums) : nums[k] = nums[k - 1] + 1

C17_MergeScenesRaisesUnlessStrictlySequential ==
    (called.op = "MergeScenes" /\ (called.scene_numbers = <<>> \/ ~StrictlySequential(called.scene_numbers)))
        => left.error = "ValueError"

\* C17 as the code has it: the list is sorted first, so MergeScenes raises
\* exactly when the list is empty, when its numbers in ascending order are not
\* consecutive (a gap or a repetition), or when one of them is not the number
\* of a scene; the order of the list does not matter
C17_MergeScenesRaisesUnlessConsecutiveWhenSorted ==
    called.op = "MergeScenes" =>
        LET nums == called.scene_numbers
            numbers == {nums[k] : k \in 1..Len(nums)}
            consecutive == /\ Cardinality(numbers) = Len(nums)
                           /\ \A n \in Min(numbers)..Max(numbers) : n \in numbers
        IN (left.error = "ValueError") <=>
               \/ nums = <<>>
               \/ ~consecutive
               \/ \E n \in numbers : ~SceneExists(given, n)

\* a list in descending order is merged
C17_Witness ==
    /\ called.op = "MergeScenes"
    /\ called.scene_numbers = <<3, 2, 1>>
    /\ Len(given) = 3
    /\ Len(left.scenes) = 1
    /\ left.error = "none"

\* ------------------------------------------------------------------------
\* C18: the handler a lookup returns for an extension has the highest priority
\* among the handlers registered for that extension since the registry was
\* last cleared, in whatever order they were registered; a registration of
\* higher priority replaces the current handler, one of lower priority does not
\* ------------------------------------------------------------------------
RegisteredFor(ext) == {h \in since.registered : ext \in ExtensionsOf(h)}

C18_LookupReturnsHighestPriority ==
    /\ regCall.op = "get_handler_by_extension" =>
           LET ext == Lower(regCall.arg)
           IN IF regCall.result = "ValueError"
              THEN RegisteredFor(ext) = {}
              ELSE /\ regCall.result \in RegisteredFor(ext)
                   /\ \A h \in RegisteredFor(ext) :
                         PriorityOf(h, ext) <= PriorityOf(regCall.result, ext)
    /\ regCall.op = "register_handler" =>
           \A ext \in ExtensionsOf(regCall.arg) \cap DOMAIN regBefore.handlers :
               /\ PriorityOf(regCall.arg, ext) > regBefore.priorities[ext] =>
                      _handlers[ext] = regCall.arg
               /\ PriorityOf(regCall.arg, ext) < regBefore.priorities[ext] =>
                      _handlers[ext] = regBefore.handlers[ext]

\* three handlers for .srt were registered by hand, and a lookup returns the
\* one of highest priority
C18_Witness ==
    /\ regCall.op = "get_handler_by_extension"
    /\ regCall.result = "SrtFileHandler"
    /\ ~regCall.discovery
    /\ since.disable_called
    /\ {"SrtFileHandler", "DummySrtHandler", "LowerPrioritySrtHandler"} \subseteq since.by_hand
    /\ regBefore.handlers = _handlers

\* ------------------------------------------------------------------------
\* C19: a lookup triggers discovery if and only if neither discover() nor
\* disable_autodiscovery() was called since the last clear(); after
\* disable_autodiscovery() the registry holds only handlers registered by hand
\* afterwards, until discover() is called explicitly; a second discover()
\* changes neither handlers nor priorities
\* ------------------------------------------------------------------------
\* the parts of C19 about the discovery flag and about calling discover() twice
DiscoveryOnlyWhenNotDiscovered ==
    /\ _discovered = (since.discover_called \/ since.disable_called)
    /\ regCall.op = "get_handler_by_extension" => (regCall.discovery = ~regBefore.discovered)
    /\ regCall.op = "discover" => discover(Registry) = Registry

HandlersInRegistry == {_handlers[ext] : ext \in DOMAIN _handlers}

C19_DisabledUntilExplicitDiscover ==
    /\ DiscoveryOnlyWhenNotDiscovered
    /\ since.autodiscovery_disabled => HandlersInRegistry \subseteq since.by_hand

\* C19 as the code has it: discover() counts whether called explicitly or by an
\* earlier lookup, and clear() ends the effect of disable_autodiscovery() as
\* discover() does
C19_DisabledUntilDiscoverOrClear ==
    /\ DiscoveryOnlyWhenNotDiscovered
    /\ (since.disable_called /\ ~since.discover_called) => HandlersInRegistry \subseteq since.by_hand

\* autodiscovery was disabled, a handler was registered by hand, and a lookup
\* returns it without discovering anything
C19_Witness ==
    /\ regCall.op = "get_handler_by_extension"
    /\ regCall.result = "DummySrtHandler"
    /\ ~regCall.discovery
    /\ since.disable_called
    /\ ~since.discover_called
    /\ HandlersInRegistry = {"DummySrtHandler"}

\* ------------------------------------------------------------------------
\* C20: in a full translation run the translator emits batch_translated once
\* for every batch, in ascending order of (scene number, batch number), and
\* scene_translated once for every scene, in ascending order of scene number
\* ------------------------------------------------------------------------
\* the events of one kind the translator has emitted in the current run
TranslatorEvents(kind) ==
    SelectSeq(evLog, LAMBDA e : e.source = "translator" /\ e.kind = kind)

\* batch_translated of every batch of the first n scenes, in ascending order
RECURSIVE BatchEventsInOrder(_)
BatchEventsInOrder(n) ==
    IF n = 0 THEN <<>>
    ELSE BatchEventsInOrder(n - 1)
         \o [b \in 1..batchCounts[n] |-> Event("translator", "batch_translated", n, b)]

SceneEventsInOrder(n) == [s \in 1..n |-> Event("translator", "scene_translated", s, 0)]

IsPrefix(s, t) == Len(s) <= Len(t) /\ s = SubSeq(t, 1, Len(s))

C20_EventsInAscendingOrderOncePerBatch ==
    run.method = "TranslateSubtitles" =>
        /\ IsPrefix(TranslatorEvents("batch_translated"), BatchEventsInOrder(Len(batchCounts)))
        /\ IsPrefix(TranslatorEvents("scene_translated"), SceneEventsInOrder(Len(batchCounts)))
        /\ run.state = "returned" =>
               /\ TranslatorEvents("batch_translated") = BatchEventsInOrder(Len(batchCounts))
               /\ TranslatorEvents("scene_translated") = SceneEventsInOrder(Len(batchCounts))

\* a run over a scene of two batches and a scene of one batch has returned
C20_Witness ==
    /\ run = [method |-> "TranslateSubtitles", state |-> "returned"]
    /\ batchCounts = <<2, 1>>
    /\ Len(TranslatorEvents("batch_translated")) = 3
    /\ Len(TranslatorEvents("scene_translated")) = 2

\* ------------------------------------------------------------------------
\* C21: project settings given under a legacy field name (gpt_model,
\* characters, synopsis, match_partial_words) are stored under the current
\* field name (model, names, description, substitution_mode) with the
\* legacy value
\* ------------------------------------------------------------------------
\* every element of the sequence part is an element of whole
ContainsAll(whole, part) == \A i \in 1..Len(part) : \E j \in 1..Len(whole) : whole[j] = part[i]

C21_LegacyFieldsStoredUnderCurrentNames ==
    (settingsCall.called /\ settingsCall.before.subtitles) =>
        LET loaded == settingsCall.settings
            stored == project_subtitles.settings
        IN  /\ Truthy(DictGet(loaded, "gpt_model")) => stored["model"] = loaded["gpt_model"]
            /\ Truthy(DictGet(loaded, "characters"))
                   => ContainsAll(stored["names"], loaded["characters"])
            /\ (Truthy(DictGet(loaded, "synopsis")) /\ "description" \notin DOMAIN loaded)
                   => stored["description"] = loaded["synopsis"]
            /\ (Truthy(DictGet(loaded, "match_partial_words"))
                    /\ "substitution_mode" \notin DOMAIN loaded)
                   => stored["substitution_mode"] = <<"Partial Words">>

\* ------------------------------------------------------------------------
\* C22: _convert_to_input_params raises TranslationError for every message
\* list that holds an entry whose role is missing or is not one of user,
\* system, developer and assistant, and converts no such entry
\* ------------------------------------------------------------------------
RoleRejected(item) ==
    item.type = "dict"
        /\ ("role" \notin DOMAIN item.fields \/ item.fields["role"] \notin AcceptedRoles)

C22_MissingOrInvalidRoleIsRejected ==
    (conversion.called /\ conversion.content.is_list
        /\ \E i \in 1..Len(conversion.content.items) : RoleRejected(conversion.content.items[i]))
    => conversion.returned = TranslationErrorRaised

\* ------------------------------------------------------------------------
\* C23: every batch the batcher produces has between min_batch_size and
\* max_batch_size lines when min_batch_size <= max_batch_size, except that a
\* scene with fewer than min_batch_size lines is a single batch
\* ------------------------------------------------------------------------
SceneLineCount(scene) == Len(FlattenOriginals(<<scene>>))

BatchSizesOf(scene) == {Len(scene.batches[j].originals) : j \in 1..Len(scene.batches)}

ExitCodeOf(what) ==
    CASE what = "translation succeeded" -> 0
      [] what = "translation failed" -> 1
      [] what = "invalid arguments" -> 2
      [] what = "invalid configuration" -> 2
      [] what = "user abort" -> 3

C24_ExitCodeIdentifiesOutcome ==
    cli.pc = "exited" => cli.exit_status = ExitCodeOf(cli.happened)

\* ------------------------------------------------------------------------
\* C25: an abort requested for a TranslateSceneCommand at any time after the
\* command exists, also before execute has created its translator, is not
\* lost: the command ends with aborted set and starts no batch after it
\* ------------------------------------------------------------------------
C25_AbortOfCommandIsNotLost ==
    command.abort_requested =>
        /\ command.started_after_request = 0
        /\ (command.pc = "done" /\ command.ended # "CommandError") => command.aborted

\* ------------------------------------------------------------------------
\* C26: no interleaving of threads deadlocks on the project lock and
\* Subtitles.lock: a thread that holds Subtitles.lock in an editor scope and
\* calls a project operation that takes the project lock never waits forever
\* on a thread that holds the project lock and enters an editor scope or a
\* Subtitles save
\* ------------------------------------------------------------------------
\* the thread that holds the lock thread t asks for next, NoThread when it is free,
\* held by t itself or t asks for none
Blocker(t) ==
    LET w == Wanted(t)
        l == IF w.kind = "project" THEN held_project_lock
             ELSE IF w.kind = "subtitles" THEN subtitles_locks[w.of]
             ELSE Unlocked
    IN  IF l.owner = t THEN NoThread ELSE l.owner

\* two threads each wait for a lock the other holds
C26_NoDeadlockOnProjectAndSubtitlesLock ==
    ~ \E t1 \in Threads, t2 \in Threads :
          t1 # t2 /\ Blocker(t1) = t2 /\ Blocker(t2) = t1

\* ------------------------------------------------------------------------
\* C27: when SubtitleProject.TranslateSubtitles has finished, by returning,
\* by an abort or by an error, the project's handlers are no longer
\* subscribed to the translator's events
\* ------------------------------------------------------------------------
C27_HandlersUnsubscribedWhenTranslateSubtitlesEnds ==
    (run.method = "TranslateSubtitles" /\ run.state \in {"returned", "aborted", "failed"})
        => subscribed = {}

SpecReenter == InitLock /\ [][ReenterNext]_vars

\* ------------------------------------------------------------------------
\* C29: when SubtitleEditor scopes on the same Subtitles are nested on one
\* thread, the same instance entered twice included, the lock is fully
\* released once the outermost scope has exited: a thread with no open scope
\* that is not inside __enter__ holds no acquisition of Subtitles.lock, so
\* the lock is free for another thread as soon as no scope is open.
\* ------------------------------------------------------------------------
C29_NestedScopesReleaseLockFully ==
    \A t \in Threads :
        (scopes[t] = <<>> /\ waiting[t] = NoEditor)
            => HeldBy(t) = 0

\* the four operations of the editor on batched Subtitles
InitDuplicate ==
    /\ DuplicateInit
    /\ LockInit
    /\ EventsIdle
    /\ CustomIdle
    /\ StreamIdle
    /\ SaveIdle
    /\ AutosaveIdle
    /\ AccessIdle
    /\ CallsIdle
    /\ RegistryIdle
    /\ SettingsIdle
    /\ ConvertIdle
    /\ BuilderIdle
    /\ CliIdle
    /\ CommandIdle
    /\ OrderIdle

SpecDuplicate == InitDuplicate /\ [][DuplicateNext]_vars

\* ------------------------------------------------------------------------
\* C30: when MergeScenes, SplitScene, DeleteLines or
\* DuplicateOriginalsAsTranslations raises, the Subtitles are exactly as they
\* were before the call: no step that ends with an error changes a scene, a
\* batch or a line.
\* ------------------------------------------------------------------------
C30_RaisingOperationLeavesSubtitlesUnchanged ==
    [][~lastOp'.ok => (scenes' = scenes /\ originals' = originals)]_vars

====
